---- MODULE Spec2Model ----
(***************************************************************************)
(* A model of the launcher src/start_app.py (MultiTodoApp): the            *)
(* incremental-build staleness check (_get_latest_mtime,                   *)
(* _should_rebuild_main, _should_rebuild_renderer) and the launch /        *)
(* supervision / cleanup state machine of AppLauncher.                     *)
(*                                                                         *)
(* src/start_app.py as it stands is rejected by the Python compiler        *)
(* (IndentationError at line 542: the bodies of the `if need_build_main:`, *)
(* `if need_build_renderer:` and `else:` (line 862) blocks are not         *)
(* indented).  The model follows the block structure the if/else keywords  *)
(* dictate: the statements between an `if` and its `else` are its body.    *)
(***************************************************************************)
EXTENDS Integers, Sequences, FiniteSets, TLC

VARIABLES
    fs,           \* the project directory: path -> [exists, mtime, statOk, kind]
    trail,        \* what happened last to the staleness inputs (history)
    checker,      \* the EnvironmentChecker: [checks_passed, checks_failed]
    cfg,          \* command line and host: [dev, fast, check, help, tools]
    pack,         \* the packaging scripts: where they are and what they ran
    node_modules, \* the dependency cache directory exists
    port,         \* another program listens on port 3000: "free" | "foreign"
    pc,           \* where the main thread is in main() / launch()
    hstack,       \* the signal handlers running on top of it, innermost last
    ret,          \* what launch() is about to return: "none" | "true" | "false" | "sysexit"
    exit_status,  \* the launcher's exit status: "running" | "0" | "1"
    need,         \* need_build_main, need_build_renderer
    jobs,         \* the external commands running: "install", "main", "renderer"
    error_log,    \* what build_error.log holds
    dev_process,  \* self.dev_process: [state, returncode]
    pipe,         \* the child's output not yet read by readline()
    elapsed,      \* time.time() - start_time, in seconds
    app_started,  \* the local app_started of the supervision loop
    signals,      \* SIGINT / SIGTERM delivered so far
    hist          \* history: what the launcher did to its child and reported

(***************************************************************************)
(* Bounds of the model.                                                    *)
(***************************************************************************)
MaxTime == 2          \* modification times range over 0..MaxTime
MaxSignals == 2       \* signals delivered to the launcher in one run
MaxCalls == 2          \* calls of run_full_check() on one EnvironmentChecker
MaxPipe == 1          \* lines the child has written and the launcher not yet read
MaxRetry == 3         \* retry budgets handed to run_command range over 0..MaxRetry

(***************************************************************************)
(* The filesystem.  A path is a directory (a sequence of names below the   *)
(* project root) and a file name; a file name is a sequence of pieces, the *)
(* extension spelled out character by character, so that str.endswith is   *)
(* computed and not assumed.                                               *)
(***************************************************************************)
Path(dirs, name) == [dirs |-> dirs, name |-> name]

MainJs        == Path(<<"dist", "main">>, <<"main", ".", "j", "s">>)
RendererJs    == Path(<<"dist">>, <<"renderer", ".", "j", "s">>)
WebpackConfig == Path(<<>>, <<"webpack.renderer.config", ".", "j", "s">>)

\* A renderer tree that is all of src.
SrcRenderer_src == <<"src">>

SrcMain     == <<"src", "main">>
SrcRenderer == <<"src", "renderer">>

\* The source files the model distinguishes.
CoreTs   == Path(<<"src", "main", "core">>, <<"a", ".", "t", "s">>)
AppTsx   == Path(<<"src", "renderer">>, <<"App", ".", "t", "s", "x">>)
VendorJs == Path(<<"src", "main", "lib", "dist">>, <<"b", ".", "j", "s">>)

SourcePaths   == {CoreTs, AppTsx, VendorJs}
\* The files a walk can reach (VendorJs lies below a pruned directory and is never
\* stat'ed, so whether it can be stat'ed is not modelled).
StatPaths     == {CoreTs, AppTsx}
ArtifactPaths == {MainJs, RendererJs}
Paths         == SourcePaths \cup ArtifactPaths \cup {WebpackConfig}

Times  == 0..MaxTime
\* The clock of the host when a build writes its artifact: a source dated
\* MaxTime is dated in the future.
BuildTime == MaxTime - 1
\* kind: "file" is a regular file with content, "empty" a regular file of zero
\* bytes, "dir" a directory.
Absent == [exists |-> FALSE, mtime |-> 0, statOk |-> TRUE, kind |-> "file"]
FileStates ==
    {Absent} \cup [exists : {TRUE}, mtime : Times, statOk : BOOLEAN, kind : {"file"}]

MainExts     == { <<".", "t", "s">>, <<".", "j", "s">> }
RendererExts == { <<".", "t", "s">>, <<".", "t", "s", "x">>, <<".", "j", "s">>,
                  <<".", "j", "s", "x">>, <<".", "c", "s", "s">> }
IgnoredDirs  == {"node_modules", "dist", "__pycache__", ".git"}

\* str.endswith
endswith(name, ext) ==
    /\ Len(ext) <= Len(name)
    /\ SubSeq(name, Len(name) - Len(ext) + 1, Len(name)) = ext

IsPrefix(d, q) == Len(d) <= Len(q) /\ SubSeq(q, 1, Len(d)) = d

\* os.path.exists: false as well when the path cannot be stat'ed
exists(f, p) == f[p].exists /\ f[p].statOk

\* os.walk(top) with the in-place pruning `dirs[:] = [d for d in dirs if d not in
\* [...]]`: the files of top, then the walk of every sub-directory not pruned.
FilesIn(f, top) == {p \in DOMAIN f : f[p].exists /\ p.dirs = top}
SubDirs(f, top) ==
    { p.dirs[Len(top) + 1] :
        p \in {q \in DOMAIN f :
                 f[q].exists /\ IsPrefix(top, q.dirs) /\ Len(q.dirs) > Len(top)} }

\* A walk that does not descend into sub-directories.
walk_flat(f, top) == FilesIn(f, top)

\* A walk that prunes nothing.
RECURSIVE walk_unpruned(_, _)
walk_unpruned(f, top) ==
    FilesIn(f, top) \cup
    UNION { walk_unpruned(f, Append(top, d)) : d \in SubDirs(f, top) }

RECURSIVE walk(_, _)
walk(f, top) ==
    FilesIn(f, top) \cup
    UNION { walk(f, Append(top, d)) : d \in SubDirs(f, top) \ IgnoredDirs }

SetMax(S) == CHOOSE m \in S : \A n \in S : n <= m

\* A scan that takes the time of a file whose getmtime raises all the same.
_get_latest_mtime_all(f, directory, extensions) ==
    SetMax({0} \cup
           { f[p].mtime :
               p \in {q \in walk(f, directory) :
                        \E ext \in extensions : endswith(q.name, ext)} })

\* AppLauncher._get_latest_mtime: latest_mtime starts at 0; a file whose
\* getmtime raises is skipped.
_get_latest_mtime(f, directory, extensions) ==
    SetMax({0} \cup
           { f[p].mtime :
               p \in {q \in walk(f, directory) :
                        /\ \E ext \in extensions : endswith(q.name, ext)
                        /\ f[q].statOk} })

\* The check without the existence test: an absent artifact reads as time 0.
_should_rebuild_main_noexist(f) ==
    _get_latest_mtime(f, SrcMain, MainExts) > f[MainJs].mtime

\* AppLauncher._should_rebuild_main
_should_rebuild_main(f) ==
    IF ~exists(f, MainJs)
    THEN TRUE
    ELSE _get_latest_mtime(f, SrcMain, MainExts) > f[MainJs].mtime

\* The check with a tie counted as stale.
_should_rebuild_renderer_tie(f) ==
    IF ~exists(f, RendererJs)
    THEN TRUE
    ELSE LET src_mtime == _get_latest_mtime(f, SrcRenderer, RendererExts)
             with_cfg  == IF exists(f, WebpackConfig)
                          THEN SetMax({src_mtime, f[WebpackConfig].mtime})
                          ELSE src_mtime
         IN  with_cfg >= f[RendererJs].mtime

\* AppLauncher._should_rebuild_renderer
_should_rebuild_renderer(f) ==
    IF ~exists(f, RendererJs)
    THEN TRUE
    ELSE LET src_mtime == _get_latest_mtime(f, SrcRenderer, RendererExts)
             with_cfg  == IF exists(f, WebpackConfig)
                          THEN SetMax({src_mtime, f[WebpackConfig].mtime})
                          ELSE src_mtime
         IN  with_cfg > f[RendererJs].mtime

(***************************************************************************)
(* The build targets, as the claims speak of them.                         *)
(***************************************************************************)
Targets == {"main", "renderer"}
Artifact(T)   == IF T = "main" THEN MainJs ELSE RendererJs
SourceDir(T)  == IF T = "main" THEN SrcMain ELSE SrcRenderer
WatchedExt(T) == IF T = "main" THEN MainExts ELSE RendererExts
should_rebuild(T, f) ==
    IF T = "main" THEN _should_rebuild_main(f) ELSE _should_rebuild_renderer(f)

\* p lies in the source tree of T
InTree(T, p) == IsPrefix(SourceDir(T), p.dirs)
\* p is a watched file of T: under the source directory, outside the ignored
\* directories, its name ending with a watched extension
Watched(T, p) ==
    /\ InTree(T, p)
    /\ \A i \in (Len(SourceDir(T)) + 1)..Len(p.dirs) : p.dirs[i] \notin IgnoredDirs
    /\ \E ext \in WatchedExt(T) : endswith(p.name, ext)

NoTrail == [kind |-> "init", target |-> "main", stale |-> FALSE, readable |-> TRUE]

(***************************************************************************)
(* The launcher: main() and AppLauncher.launch().                          *)
(*                                                                         *)
(* The main thread runs launch(); a SIGINT or SIGTERM runs signal_handler   *)
(* on top of whatever the main thread is doing (hstack), and the handler's *)
(* sys.exit(0) raises SystemExit at the interrupted statement.  A bare      *)
(* `except:` around that statement swallows it; `except Exception` and      *)
(* `except KeyboardInterrupt` do not.                                      *)
(*                                                                         *)
(* Time: the launcher's own statements take no time; time passes only      *)
(* while it is blocked (readline on an empty pipe, wait(timeout=5),         *)
(* time.sleep(1)).  elapsed takes the instants that the comparisons of the *)
(* code can tell apart.                                                    *)
(***************************************************************************)
ProdTimeout == 30
DevTimeout  == 60
startup_timeout == IF cfg.dev THEN DevTimeout ELSE ProdTimeout
Instants == {0, 2, startup_timeout, startup_timeout + 1}

IndexHtml == Path(<<"dist">>, <<"index", ".", "h", "t", "m", "l">>)
AllPaths  == Paths \cup {IndexHtml}

\* check_file_exists: os.path.isfile (true of an empty file, false of a directory)
check_file_exists(f, p) == f[p].exists /\ f[p].statOk /\ f[p].kind # "dir"

\* An output line is a sequence of pieces of text, each written in lower case
\* or not; str.lower() makes every piece lower case, and a keyword is in the
\* line when one of its lower-case pieces is the keyword.
Piece(text, caps) == [text |-> text, caps |-> caps]
lower(line) == [i \in DOMAIN line |-> [line[i] EXCEPT !.caps = FALSE]]
contains(line, keyword) == \E i \in DOMAIN line : line[i] = Piece(keyword, FALSE)

ProdReadyKeywords == {"ready", "initialized", "database", "window created"}
DevReadyKeywords  == {"compiled successfully", "webpack compiled", "ready"}

\* A readiness test that forgets str.lower().
is_ready_case(dev, line) ==
    \E keyword \in (IF dev THEN DevReadyKeywords ELSE ProdReadyKeywords) :
        contains(line, keyword)

\* any(keyword in line.lower() for keyword in [...])
is_ready(dev, line) ==
    \E keyword \in (IF dev THEN DevReadyKeywords ELSE ProdReadyKeywords) :
        contains(lower(line), keyword)

ErrorKeywords == {"error", "failed", "cannot"}

\* `if any(keyword in line.lower() for keyword in ['error', 'failed', 'cannot']):`
\* and the test inside it: `if 'error' in line.lower() and 'gpu' not in
\* line.lower()` in production mode (lines 708-710), `if 'error' in
\* line.lower()` in development mode (lines 802-804)
surfaces_error(dev, line) ==
    /\ \E keyword \in ErrorKeywords : contains(lower(line), keyword)
    /\ contains(lower(line), "error")
    /\ ~dev => ~contains(lower(line), "gpu")

\* The lines a child may print: "... Window Created ..." tells readiness in
\* production mode only, "... compiled successfully ..." in development mode only.
Lines == { <<Piece("loading", FALSE), Piece("window created", TRUE)>>,
           <<Piece("compiled successfully", FALSE)>> }

NoProcess == [state |-> "none", returncode |-> 0]
\* What a finished command hands back: subprocess.CompletedProcess
Result(returncode, stderr, stdout) ==
    [returncode |-> returncode, stderr |-> stderr, stdout |-> stdout]
NoResult == Result(0, <<>>, <<>>)
\* The results a build command may end with; a text is a sequence of words.
Results == { Result(0, <<>>, <<"built">>),
             Result(2, <<"syntax", "error">>, <<>>),
             Result(1, <<>>, <<>>),
             Result(12, <<"killed">>, <<"webpack", "5">>) }

NoLog == [exists |-> FALSE, text |-> <<>>]

\* str() of an int: its decimal digits, with a sign
DigitChars == <<"0", "1", "2", "3", "4", "5", "6", "7", "8", "9">>
RECURSIVE str(_)
str(n) ==
    IF n < 0 THEN <<"-">> \o str(0 - n)
    ELSE IF n < 10 THEN <<DigitChars[n + 1]>>
    ELSE str(n \div 10) \o <<DigitChars[(n % 10) + 1]>>

\* The texts build_error.log is made of (lines 589-596): the title, the three
\* block headers, and what stands for an empty stderr and an empty stdout.
LogTitle    == "renderer build error log"
StderrBlock == "=== STDERR ==="
StdoutBlock == "=== STDOUT ==="
CodeBlock   == "=== RETURN CODE ==="
NoStderr    == "(no error output)"
NoStdout    == "(no standard output)"

\* A log that leaves out the block of an empty stream.
write_error_log_omit(result) ==
    [exists |-> TRUE,
     text   |-> <<LogTitle>>
                \o (IF result.stderr # <<>> THEN <<StderrBlock>> \o result.stderr ELSE <<>>)
                \o (IF result.stdout # <<>> THEN <<StdoutBlock>> \o result.stdout ELSE <<>>)
                \o <<CodeBlock>> \o str(result.returncode)]

\* `with open(error_log, 'w') as f: f.write(...)` (lines 588-598)
write_error_log(result) ==
    [exists |-> TRUE,
     text   |-> <<LogTitle>>
                \o <<StderrBlock>>
                \o (IF result.stderr # <<>> THEN result.stderr ELSE <<NoStderr>>)
                \o <<StdoutBlock>>
                \o (IF result.stdout # <<>> THEN result.stdout ELSE <<NoStdout>>)
                \o <<CodeBlock>> \o str(result.returncode)]

\* install, mainBuild, rendererBuild: "none" | "ok" | "failed", how the command
\* ended; failure: the result of the build that failed; logSaved: the failure
\* log was written; env: "none" | "ok" | "failed", what check_environment()
\* returned; installs: the calls of _run_npm_install() that reached npm;
\* surfaced: the line read last, when it went to print_error (else <<>>);
\* lastInstall: how the install of the launch before this one ended;
\* fullChecks: the calls of run_full_check() on the checker; raised: the
\* staleness check that raised an exception; latest: what _get_latest_mtime
\* returned for the source tree of target latestOf; spawns: the calls of
\* subprocess.Popen for the application; spawnFailed: one of them raised.
NoHist == [termSent |-> FALSE, killSent |-> FALSE, graceExpired |-> FALSE,
           portKill |-> FALSE, timedOut |-> FALSE, readyInWindow |-> FALSE,
           reachedWait |-> FALSE,
           install |-> "none", mainBuild |-> "none", rendererBuild |-> "none",
           failure |-> NoResult, logSaved |-> FALSE,
           env |-> "none", installs |-> 0, surfaced |-> <<>>,
           lastInstall |-> "none", fullChecks |-> 0, raised |-> "none",
           latestOf |-> "none", latest |-> 0, spawns |-> 0, spawnFailed |-> FALSE]

\* No EnvironmentChecker yet, or one just made (lines 143-145)
NoChecker == [checks_passed |-> 0, checks_failed |-> 0]

\* No packaging script runs. A script is in `pc`, its call of run_command in
\* `rc`, its own retry loop at `attempt`; `release` is the release/ directory ("absent", "empty": without an
\* installer, "exe": with one), `log` what the script ran so far, `said` its
\* closing message and `status` its exit status.
NoCall == [pc |-> "idle", cmd |-> "none", retry |-> 0, attempt |-> 0, ret |-> FALSE]
NoPack == [script |-> "none", pc |-> "idle", os |-> "none", rc |-> NoCall, attempt |-> 0,
           release |-> "absent", log |-> <<>>, said |-> "none", status |-> "running"]

\* Project directories a launch may start from.
File(t) == [exists |-> TRUE, mtime |-> t, statOk |-> TRUE, kind |-> "file"]
Tree(core, main_js, renderer_js, config, html) ==
    (CoreTs :> core) @@ (AppTsx :> File(1)) @@ (VendorJs :> Absent) @@
    (MainJs :> main_js) @@ (RendererJs :> renderer_js) @@
    (WebpackConfig :> config) @@ (IndexHtml :> html)
UpToDate == Tree(File(1), File(1), File(1), File(1), File(1))
LaunchFs ==
    { UpToDate,
      Tree(File(1), Absent, Absent, File(1), Absent),         \* never built
      Tree(File(MaxTime), File(1), File(1), File(1), Absent) }\* main source newer, no html

\* The command line and the host a launch may start from.  main() reads one
\* argument only (lines 941-954), so --dev and --fast never come together.
\* --check is the check-only run, which never launches (lines 946-949).
\* What a mode never looks at is held fixed: fast mode the tools and
\* node_modules, development mode the build artifacts.
LaunchInputs ==
    /\ pack = NoPack
    /\ cfg \in [dev : BOOLEAN, fast : BOOLEAN, check : {FALSE}, help : {FALSE},
                tools : {"ok", "no_node", "no_npm", "no_package_json"}]
    /\ ~(cfg.dev /\ cfg.fast)
    /\ node_modules \in BOOLEAN
    /\ port \in {"free", "foreign"}
    /\ fs \in LaunchFs
    /\ cfg.fast => cfg.tools = "ok" /\ node_modules
    /\ cfg.dev => fs = UpToDate

LaunchInit ==
    /\ pc = "start"
    /\ checker = NoChecker
    /\ hstack = <<>>
    /\ ret = "none"
    /\ exit_status = "running"
    /\ need = [main |-> FALSE, renderer |-> FALSE]
    /\ jobs = {}
    /\ error_log = NoLog
    /\ dev_process = NoProcess
    /\ pipe = <<>>
    /\ elapsed = 0
    /\ app_started = FALSE
    /\ signals = 0
    /\ hist = NoHist

Init ==
    /\ LaunchInputs
    /\ LaunchInit
    /\ trail = NoTrail

childVars == <<dev_process, pipe, elapsed, app_started>>
hostVars  == <<fs, trail, checker, cfg, pack, node_modules, port, need, jobs, error_log>>

InMain  == hstack = <<>> /\ exit_status = "running"
CurPc   == IF hstack = <<>> THEN pc ELSE hstack[Len(hstack)]
\* poll() is None: the child runs, or was sent SIGKILL and is not yet gone
Alive   == dev_process.state \in {"alive", "killed"}
Front(q) == SubSeq(q, 1, Len(q) - 1)

\* The main thread moves on inside launch()'s try block.
Goto(p) ==
    /\ pc' = p
    /\ UNCHANGED <<hstack, ret, exit_status, signals>>

\* A `return v` inside launch()'s try block: the finally block runs cleanup().
Return(v) ==
    /\ pc' = "c_poll"
    /\ ret' = v
    /\ UNCHANGED <<hstack, exit_status, signals>>

ModeEntry == IF cfg.dev THEN "d_kill" ELSE "b_kill"

\* A launch whose fast mode skips nothing.
Setup_nofast ==
    /\ InMain /\ pc = "start"
    /\ Goto("env_node")
    /\ UNCHANGED <<hostVars, childVars, hist>>

\* launch(): setup_signal_handlers(), then the fast-mode branch (lines 853-862)
Setup ==
    /\ InMain /\ pc = "start" /\ ~cfg.check /\ ~cfg.help
    /\ Goto(IF cfg.fast THEN ModeEntry ELSE "env_node")
    /\ UNCHANGED <<hostVars, childVars, hist>>

\* check_environment(): check_command_exists('node') (lines 416-420)
EnvNode ==
    /\ InMain /\ pc = "env_node"
    /\ Goto(IF cfg.tools = "no_node" THEN "confirm" ELSE "env_node_ver")
    /\ hist' = [hist EXCEPT !.env = IF cfg.tools = "no_node" THEN "failed" ELSE @]
    /\ UNCHANGED <<hostVars, childVars>>

\* get_command_version('node') (line 422)
EnvNodeVer ==
    /\ InMain /\ pc = "env_node_ver"
    /\ Goto("env_npm")
    /\ UNCHANGED <<hostVars, childVars, hist>>

\* check_command_exists('npm') (lines 425-428)
EnvNpm ==
    /\ InMain /\ pc = "env_npm"
    /\ Goto(IF cfg.tools = "no_npm" THEN "confirm" ELSE "env_npm_ver")
    /\ hist' = [hist EXCEPT !.env = IF cfg.tools = "no_npm" THEN "failed" ELSE @]
    /\ UNCHANGED <<hostVars, childVars>>

\* get_command_version('npm') (line 430)
EnvNpmVer ==
    /\ InMain /\ pc = "env_npm_ver"
    /\ Goto("env_pkg")
    /\ UNCHANGED <<hostVars, childVars, hist>>

\* check_file_exists(package_json) (lines 433-440)
EnvPkg ==
    /\ InMain /\ pc = "env_pkg"
    /\ Goto(IF cfg.tools = "no_package_json" THEN "confirm" ELSE "install")
    /\ hist' = [hist EXCEPT !.env = IF cfg.tools = "no_package_json"
                                    THEN "failed" ELSE "ok"]
    /\ UNCHANGED <<hostVars, childVars>>

\* confirm_action(): the operator answers the prompt (lines 867-869)
Confirm(yes) ==
    /\ InMain /\ pc = "confirm"
    /\ IF yes THEN Goto("fc_start") ELSE Return("false")
    /\ UNCHANGED <<hostVars, childVars, hist>>

(***************************************************************************)
(* EnvironmentChecker (lines 140-271), run by AppLauncher.run_full_check() *)
(* after a failed quick check, or by `--check`.                            *)
(***************************************************************************)
\* self.checks_passed += 1, self.checks_failed += 1
Count(ok) ==
    checker' = IF ok THEN [checker EXCEPT !.checks_passed = @ + 1]
                     ELSE [checker EXCEPT !.checks_failed = @ + 1]

\* Everything a check leaves alone but pc and checker.
CheckFrame == UNCHANGED <<fs, trail, cfg, pack, node_modules, port, need, jobs, error_log,
                          childVars>>

\* main() with --help (lines 943-945): show_help(); return
MainHelp ==
    /\ InMain /\ pc = "start" /\ cfg.help
    /\ pc' = "exited"
    /\ exit_status' = "0"
    /\ UNCHANGED <<hostVars, childVars, hist, hstack, ret, signals>>

\* A dependency check that only warns about a missing node_modules.
check_dependencies_warns ==
    /\ InMain /\ pc = "fc_deps"
    /\ Count(TRUE)
    /\ Goto("fc_done")
    /\ UNCHANGED <<fs, trail, cfg, pack, node_modules, port, need, jobs, error_log,
                   childVars, hist>>

\* main() with --check (lines 946-948): checker = EnvironmentChecker()
MainCheck ==
    /\ InMain /\ pc = "start" /\ cfg.check /\ ~cfg.help
    /\ checker' = NoChecker
    /\ Goto("fc_start")
    /\ CheckFrame /\ UNCHANGED hist

\* A full check that keeps the counts of the check before.
run_full_check_noreset ==
    /\ InMain /\ pc = "fc_start"
    /\ hist' = [hist EXCEPT !.fullChecks = @ + 1]
    /\ Goto("fc_python")
    /\ CheckFrame /\ UNCHANGED checker

\* run_full_check(): the counters are reset (lines 251-252)
run_full_check ==
    /\ InMain /\ pc = "fc_start"
    /\ checker' = NoChecker
    /\ hist' = [hist EXCEPT !.fullChecks = @ + 1]
    /\ Goto("fc_python")
    /\ CheckFrame

\* check_python() (lines 147-163); ok: sys.version_info is 3.7 or later
check_python(ok) ==
    /\ InMain /\ pc = "fc_python"
    /\ Count(ok)
    /\ Goto("fc_node")
    /\ CheckFrame /\ UNCHANGED hist

\* check_nodejs(): check_command_exists('node') (lines 169-173)
check_nodejs ==
    /\ InMain /\ pc = "fc_node"
    /\ IF cfg.tools = "no_node"
       THEN Count(FALSE) /\ Goto("fc_npm")
       ELSE UNCHANGED checker /\ Goto("fc_node_ver")
    /\ CheckFrame /\ UNCHANGED hist

\* check_nodejs(): get_command_version('node'), checks_passed += 1 (lines 175-178)
check_nodejs_version ==
    /\ InMain /\ pc = "fc_node_ver"
    /\ Count(TRUE)
    /\ Goto("fc_npm")
    /\ CheckFrame /\ UNCHANGED hist

\* check_npm(): check_command_exists('npm') (lines 184-188); the quick check
\* never looked for npm when node was missing
check_npm(found) ==
    /\ InMain /\ pc = "fc_npm"
    /\ cfg.tools = "no_npm" => ~found
    /\ cfg.tools \in {"ok", "no_package_json"} => found
    /\ IF found
       THEN UNCHANGED checker /\ Goto("fc_npm_ver")
       ELSE Count(FALSE) /\ Goto("fc_files")
    /\ CheckFrame /\ UNCHANGED hist

\* check_npm(): get_command_version('npm'), checks_passed += 1 (lines 190-193)
check_npm_version ==
    /\ InMain /\ pc = "fc_npm_ver"
    /\ Count(TRUE)
    /\ Goto("fc_files")
    /\ CheckFrame /\ UNCHANGED hist

\* check_project_files() (lines 195-228): package.json, tsconfig.json,
\* webpack.renderer.config.js and src/ are looked for, every one of them; found:
\* all four are there
check_project_files(found) ==
    /\ InMain /\ pc = "fc_files"
    /\ found => cfg.tools # "no_package_json" /\ check_file_exists(fs, WebpackConfig)
    /\ Count(found)
    /\ Goto("fc_deps")
    /\ CheckFrame /\ UNCHANGED hist

\* check_dependencies() (lines 230-245)
check_dependencies ==
    /\ InMain /\ pc = "fc_deps"
    /\ Count(node_modules)
    /\ Goto("fc_done")
    /\ CheckFrame /\ UNCHANGED hist

\* run_full_check() returns checks_failed == 0 (line 271); launch() drops the
\* value and returns False (lines 868-870)
FullCheckReturn ==
    /\ InMain /\ pc = "fc_done" /\ ~cfg.check
    /\ Return("false")
    /\ UNCHANGED <<hostVars, childVars, hist>>

\* main() with --check: sys.exit(0 if success else 1) (line 949)
CheckExit ==
    /\ InMain /\ pc = "fc_done" /\ cfg.check
    /\ pc' = "exited"
    /\ exit_status' = IF checker.checks_failed = 0 THEN "0" ELSE "1"
    /\ UNCHANGED <<hostVars, childVars, hist, hstack, ret, signals>>

\* An install step that runs npm install whatever is there.
install_dependencies_always ==
    /\ InMain /\ pc = "install"
    /\ Goto("npm_kill")
    /\ UNCHANGED <<hostVars, childVars, hist>>

\* install_dependencies() (lines 442-454)
install_dependencies ==
    /\ InMain /\ pc = "install"
    /\ Goto(IF node_modules THEN ModeEntry ELSE "npm_kill")
    /\ UNCHANGED <<hostVars, childVars, hist>>

\* _kill_node_processes(): kill -9 of whoever listens on port 3000, which is
\* the development server when it runs
_kill_node_processes ==
    /\ InMain /\ pc \in {"npm_kill", "b_kill", "d_kill"}
    /\ Goto(CASE pc = "npm_kill" -> "npm_run"
              [] pc = "b_kill"   -> "b_stale"
              [] pc = "d_kill"   -> "d_dots")
    /\ port' = "free"
    /\ IF Alive /\ cfg.dev
       THEN /\ dev_process' = [dev_process EXCEPT !.state = "exited", !.returncode = -9]
            /\ hist' = [hist EXCEPT !.portKill = TRUE]
       ELSE UNCHANGED <<dev_process, hist>>
    /\ UNCHANGED <<fs, trail, checker, cfg, pack, node_modules, need, jobs, error_log,
                   pipe, elapsed, app_started>>

\* _run_npm_install(): subprocess.Popen(['npm', 'install']) (lines 469-495); a
\* Popen that raises is caught by `except Exception` (lines 514-516)
StartNpmInstall(ok) ==
    /\ InMain /\ pc = "npm_run"
    /\ IF ok
       THEN /\ jobs' = jobs \cup {"install"}
            /\ hist' = [hist EXCEPT !.installs = @ + 1]
            /\ Goto("npm_wait")
       ELSE /\ UNCHANGED <<jobs, hist>>
            /\ Return("false")
    /\ UNCHANGED <<fs, trail, checker, cfg, pack, node_modules, port, need, error_log, childVars>>

\* An install whose failure does not stop the launch.
_run_npm_install_goes_on(ok, leaves_dir) ==
    /\ InMain /\ pc = "npm_wait"
    /\ ok => leaves_dir
    /\ node_modules' = leaves_dir
    /\ jobs' = jobs \ {"install"}
    /\ hist' = [hist EXCEPT !.install = IF ok THEN "ok" ELSE "failed"]
    /\ Goto(ModeEntry)
    /\ UNCHANGED <<fs, trail, checker, cfg, pack, port, need, error_log, childVars>>

\* _run_npm_install(): npm install runs to its end (lines 497-512); a failed
\* install may leave node_modules behind
_run_npm_install(ok, leaves_dir) ==
    /\ InMain /\ pc = "npm_wait"
    /\ ok => leaves_dir
    /\ node_modules' = leaves_dir
    /\ jobs' = jobs \ {"install"}
    /\ hist' = [hist EXCEPT !.install = IF ok THEN "ok" ELSE "failed"]
    /\ IF ok THEN Goto(ModeEntry) ELSE Return("false")
    /\ UNCHANGED <<fs, trail, checker, cfg, pack, port, need, error_log, childVars>>

\* wait_with_dots("...", 2) (line 737)
DevDots ==
    /\ InMain /\ pc = "d_dots"
    /\ Goto("spawn")
    /\ UNCHANGED <<hostVars, childVars, hist>>

\* need_build_main, need_build_renderer (lines 525-527)
\* gone: the files another process deletes right after os.path.exists() found
\* them (lines 369/373, 387/391, 399/400); os.path.getmtime() then raises
\* FileNotFoundError, which nothing catches before launch()'s `except
\* Exception` (lines 894-896): `return False`
BuildStale(gone) ==
    /\ InMain /\ pc = "b_stale"
    /\ \A p \in gone : exists(fs, p)
    /\ RendererJs \in gone \/ exists(fs, RendererJs) \/ WebpackConfig \notin gone
    /\ fs' = [p \in DOMAIN fs |-> IF p \in gone THEN Absent ELSE fs[p]]
    /\ IF gone = {}
       THEN /\ need' = [main |-> _should_rebuild_main(fs),
                        renderer |-> _should_rebuild_renderer(fs)]
            /\ Goto("b_main")
            /\ UNCHANGED hist
       ELSE /\ UNCHANGED need
            /\ Return("false")
            /\ hist' = [hist EXCEPT !.raised = IF MainJs \in gone
                                               THEN "_should_rebuild_main"
                                               ELSE "_should_rebuild_renderer"]
    /\ UNCHANGED <<trail, checker, cfg, pack, node_modules, port, jobs, error_log,
                   childVars>>

\* A main build started whatever the staleness check said.
StartBuildMain_always ==
    /\ InMain /\ pc = "b_main"
    /\ jobs' = jobs \cup {"main"}
    /\ Goto("b_main_run")
    /\ UNCHANGED <<fs, trail, checker, cfg, pack, node_modules, port, need, error_log, childVars, hist>>

\* A main build started and not waited for.
StartBuildMain_async ==
    /\ InMain /\ pc = "b_main"
    /\ jobs' = IF need.main THEN jobs \cup {"main"} ELSE jobs
    /\ Goto("b_renderer")
    /\ UNCHANGED <<fs, trail, checker, cfg, pack, node_modules, port, need, error_log, childVars, hist>>

\* `if need_build_main:` subprocess.run('npm run build:main') starts the command
\* (lines 541-551); `else:` the build is skipped (lines 559-560)
StartBuildMain ==
    /\ InMain /\ pc = "b_main"
    /\ IF need.main
       THEN /\ jobs' = jobs \cup {"main"}
            /\ Goto("b_main_run")
       ELSE /\ UNCHANGED jobs
            /\ Goto("b_renderer")
    /\ UNCHANGED <<fs, trail, checker, cfg, pack, node_modules, port, need, error_log, childVars, hist>>

\* A failed main build that does not stop the step.
BuildMain_goes_on(result) ==
    /\ InMain /\ pc = "b_main_run"
    /\ jobs' = jobs \ {"main"}
    /\ IF result.returncode # 0
       THEN /\ hist' = [hist EXCEPT !.mainBuild = "failed", !.failure = result]
            /\ UNCHANGED fs
       ELSE /\ fs' = [fs EXCEPT ![MainJs] = File(BuildTime)]
            /\ hist' = [hist EXCEPT !.mainBuild = "ok"]
    /\ Goto("b_renderer")
    /\ UNCHANGED <<trail, checker, cfg, pack, node_modules, port, need, error_log, childVars>>

\* A main build that succeeds without writing dist/main/main.js anew.
BuildMain_nowrite(result) ==
    /\ InMain /\ pc = "b_main_run"
    /\ jobs' = jobs \ {"main"}
    /\ IF result.returncode # 0
       THEN /\ hist' = [hist EXCEPT !.mainBuild = "failed", !.failure = result]
            /\ Return("false")
       ELSE /\ hist' = [hist EXCEPT !.mainBuild = "ok"]
            /\ Goto("b_renderer")
    /\ UNCHANGED <<fs, trail, checker, cfg, pack, node_modules, port, need, error_log, childVars>>

\* `npm run build:main` ends with result (lines 553-558): a non-zero return
\* code is printed and the step returns False; the build wrote dist/main/main.js
BuildMain(result) ==
    /\ InMain /\ pc = "b_main_run"
    /\ jobs' = jobs \ {"main"}
    /\ IF result.returncode # 0
       THEN /\ hist' = [hist EXCEPT !.mainBuild = "failed", !.failure = result]
            /\ Return("false")
            /\ UNCHANGED fs
       ELSE /\ fs' = [fs EXCEPT ![MainJs] = File(BuildTime)]
            /\ hist' = [hist EXCEPT !.mainBuild = "ok"]
            /\ Goto("b_renderer")
    /\ UNCHANGED <<trail, checker, cfg, pack, node_modules, port, need, error_log, childVars>>

\* `if need_build_renderer:` subprocess.run('npm run build:renderer') starts the
\* command (lines 563-573); `else:` the build is skipped (lines 608-609)
StartBuildRenderer ==
    /\ InMain /\ pc = "b_renderer"
    /\ IF need.renderer
       THEN /\ jobs' = jobs \cup {"renderer"}
            /\ Goto("b_renderer_run")
       ELSE /\ UNCHANGED jobs
            /\ Goto("b_files")
    /\ UNCHANGED <<fs, trail, checker, cfg, pack, node_modules, port, need, error_log, childVars, hist>>

\* A failed renderer build whose log leaves out the block of an empty stream.
BuildRenderer_omit(result, log_ok) ==
    /\ InMain /\ pc = "b_renderer_run"
    /\ jobs' = jobs \ {"renderer"}
    /\ IF result.returncode # 0
       THEN /\ error_log' = IF log_ok THEN write_error_log_omit(result) ELSE error_log
            /\ hist' = [hist EXCEPT !.rendererBuild = "failed", !.failure = result,
                                     !.logSaved = log_ok]
            /\ Return("false")
            /\ UNCHANGED fs
       ELSE /\ log_ok
            /\ fs' = [fs EXCEPT ![RendererJs] = File(BuildTime),
                                 ![IndexHtml] = File(BuildTime)]
            /\ hist' = [hist EXCEPT !.rendererBuild = "ok"]
            /\ Goto("b_files")
            /\ UNCHANGED error_log
    /\ UNCHANGED <<trail, checker, cfg, pack, node_modules, port, need, childVars>>

\* `npm run build:renderer` ends with result (lines 575-607): on a non-zero
\* return code build_error.log is written, unless open() or write() raises
\* (`except Exception`, lines 602-603), and the step returns False; the build
\* wrote dist/renderer.js and dist/index.html
BuildRenderer(result, log_ok) ==
    /\ InMain /\ pc = "b_renderer_run"
    /\ jobs' = jobs \ {"renderer"}
    /\ IF result.returncode # 0
       THEN /\ error_log' = IF log_ok THEN write_error_log(result) ELSE error_log
            /\ hist' = [hist EXCEPT !.rendererBuild = "failed", !.failure = result,
                                     !.logSaved = log_ok]
            /\ Return("false")
            /\ UNCHANGED fs
       ELSE /\ log_ok
            /\ fs' = [fs EXCEPT ![RendererJs] = File(BuildTime),
                                 ![IndexHtml] = File(BuildTime)]
            /\ hist' = [hist EXCEPT !.rendererBuild = "ok"]
            /\ Goto("b_files")
            /\ UNCHANGED error_log
    /\ UNCHANGED <<trail, checker, cfg, pack, node_modules, port, need, childVars>>

\* A launch step that spawns without looking at the build output.
CheckFiles_skip ==
    /\ InMain /\ pc = "b_files"
    /\ Goto("spawn")
    /\ UNCHANGED <<hostVars, childVars, hist>>

\* the three check_file_exists tests before the spawn (lines 611-628)
CheckFiles ==
    /\ InMain /\ pc = "b_files"
    /\ IF \A p \in {MainJs, RendererJs, IndexHtml} : check_file_exists(fs, p)
       THEN Goto("spawn")
       ELSE Return("false")
    /\ UNCHANGED <<hostVars, childVars, hist>>

\* A spawn whose failure is not noticed: the monitoring starts all the same.
Spawn_unnoticed(ok) ==
    /\ InMain /\ pc = "spawn"
    /\ dev_process' = IF ok THEN [state |-> "alive", returncode |-> 0] ELSE dev_process
    /\ Goto("l_timeout")
    /\ pipe' = <<>>
    /\ elapsed' = 0
    /\ app_started' = FALSE
    /\ hist' = [hist EXCEPT !.spawns = @ + 1,
                            !.spawnFailed = @ \/ ~ok]
    /\ UNCHANGED hostVars

\* subprocess.Popen(...) and the start of the monitoring (lines 631-675, 739-775);
\* a Popen that raises is caught by `except Exception` (lines 719-721, 813-815)
Spawn(ok) ==
    /\ InMain /\ pc = "spawn"
    /\ IF ok
       THEN /\ dev_process' = [state |-> "alive", returncode |-> 0]
            /\ Goto("l_timeout")
       ELSE /\ UNCHANGED dev_process
            /\ Return("false")
    /\ pipe' = <<>>
    /\ elapsed' = 0
    /\ app_started' = FALSE
    /\ hist' = [hist EXCEPT !.spawns = @ + 1,
                            !.spawnFailed = @ \/ ~ok]
    /\ UNCHANGED hostVars

\* A timeout branch that ends the child itself.
LoopTimeout_kills ==
    /\ InMain /\ pc = "l_timeout"
    /\ IF elapsed > startup_timeout
       THEN /\ hist' = [hist EXCEPT !.timedOut = TRUE, !.termSent = TRUE]
            /\ Return("false")
       ELSE /\ Goto("l_poll")
            /\ UNCHANGED hist
    /\ UNCHANGED <<hostVars, childVars>>

\* `if time.time() - start_time > startup_timeout` (lines 678-681, 778-781)
LoopTimeout ==
    /\ InMain /\ pc = "l_timeout"
    /\ IF elapsed > startup_timeout
       THEN /\ hist' = [hist EXCEPT !.timedOut = TRUE]
            /\ Return("false")
       ELSE /\ Goto("l_poll")
            /\ UNCHANGED hist
    /\ UNCHANGED <<hostVars, childVars>>

\* A loop that starts the application again when it ended with an error.
LoopPoll_respawn ==
    /\ InMain /\ pc = "l_poll"
    /\ IF ~Alive
       THEN IF ~cfg.dev /\ dev_process.returncode = 0
            THEN /\ Goto("wait")
                 /\ hist' = [hist EXCEPT !.reachedWait = TRUE]
            ELSE /\ Goto("spawn")
                 /\ UNCHANGED hist
       ELSE /\ Goto("l_read")
            /\ UNCHANGED hist
    /\ UNCHANGED <<hostVars, childVars>>

\* `if self.dev_process.poll() is not None` (lines 683-691, 783-786)
LoopPoll ==
    /\ InMain /\ pc = "l_poll"
    /\ IF ~Alive
       THEN IF ~cfg.dev /\ dev_process.returncode = 0
            THEN /\ Goto("wait")
                 /\ hist' = [hist EXCEPT !.reachedWait = TRUE]
            ELSE /\ Return("false")
                 /\ UNCHANGED hist
       ELSE /\ Goto("l_read")
            /\ UNCHANGED hist
    /\ UNCHANGED <<hostVars, childVars>>

\* A loop that gives up at the first line it reports as an error.
LoopRead_error_stops ==
    /\ InMain /\ pc = "l_read"
    /\ pipe # <<>>
    /\ app_started' = (app_started \/ is_ready(cfg.dev, Head(pipe)))
    /\ pipe' = Tail(pipe)
    /\ hist' = [hist EXCEPT !.surfaced = IF surfaces_error(cfg.dev, Head(pipe))
                                         THEN Head(pipe) ELSE <<>>]
    /\ IF surfaces_error(cfg.dev, Head(pipe))
       THEN Return("false")
       ELSE Goto("l_timeout")
    /\ UNCHANGED <<hostVars, dev_process, elapsed>>

\* readline() returns a line (lines 693-710, 788-804)
LoopRead ==
    /\ InMain /\ pc = "l_read"
    /\ pipe # <<>>
    /\ app_started' = (app_started \/ is_ready(cfg.dev, Head(pipe)))
    /\ pipe' = Tail(pipe)
    /\ hist' = [hist EXCEPT !.surfaced = IF surfaces_error(cfg.dev, Head(pipe))
                                         THEN Head(pipe) ELSE <<>>]
    /\ Goto("l_timeout")
    /\ UNCHANGED <<hostVars, dev_process, elapsed>>

\* readline() returns '' at end of file: `if output:` is false
LoopReadEof ==
    /\ InMain /\ pc = "l_read"
    /\ pipe = <<>> /\ ~Alive
    /\ Goto("l_timeout")
    /\ UNCHANGED <<hostVars, childVars, hist>>

\* wait_for_exit() (lines 817-841), then `return True` (line 891)
wait_for_exit ==
    /\ InMain /\ pc = "wait"
    /\ ~Alive
    /\ Return("true")
    /\ UNCHANGED <<hostVars, childVars, hist>>

(***************************************************************************)
(* cleanup(), run by launch()'s finally block (on the main thread) or by   *)
(* signal_handler (on top of it).                                          *)
(***************************************************************************)
InCleanup(p) == exit_status = "running" /\ CurPc = p

SetCur(p) ==
    IF hstack = <<>>
    THEN pc' = p /\ UNCHANGED hstack
    ELSE hstack' = [hstack EXCEPT ![Len(hstack)] = p] /\ UNCHANGED pc

\* cleanup() returns: the handler goes on to sys.exit(0), launch() to its caller
CleanupReturn == SetCur(IF hstack = <<>> THEN "launch_ret" ELSE "h_exit")

\* A cleanup() that does not look whether the child is still there.
CleanupPoll_always ==
    /\ InCleanup("c_poll")
    /\ SetCur("c_term")
    /\ UNCHANGED <<hostVars, childVars, hist, ret, exit_status, signals>>

\* `if self.dev_process and self.dev_process.poll() is None` (line 299)
CleanupPoll ==
    /\ InCleanup("c_poll")
    /\ IF Alive THEN SetCur("c_term") ELSE CleanupReturn
    /\ UNCHANGED <<hostVars, childVars, hist, ret, exit_status, signals>>

\* A cleanup that goes straight for the kill.
CleanupTerminate_kill ==
    /\ InCleanup("c_term")
    /\ SetCur("c_kill")
    /\ UNCHANGED <<hostVars, childVars, hist, ret, exit_status, signals>>

\* self.dev_process.terminate() (line 302): nothing is sent to a child that exited
CleanupTerminate ==
    /\ InCleanup("c_term")
    /\ hist' = [hist EXCEPT !.termSent = @ \/ Alive]
    /\ SetCur("c_wait")
    /\ UNCHANGED <<hostVars, childVars, ret, exit_status, signals>>

\* self.dev_process.wait(timeout=5) returns: the child has exited (line 303)
CleanupWaitDone ==
    /\ InCleanup("c_wait")
    /\ ~Alive
    /\ CleanupReturn
    /\ UNCHANGED <<hostVars, childVars, hist, ret, exit_status, signals>>

\* wait(timeout=5) raises TimeoutExpired: the child is still there (line 304)
CleanupWaitTimeout ==
    /\ InCleanup("c_wait")
    /\ dev_process.state = "alive"
    /\ hist' = [hist EXCEPT !.graceExpired = TRUE]
    /\ SetCur("c_kill")
    /\ UNCHANGED <<hostVars, childVars, ret, exit_status, signals>>

\* self.dev_process.kill() (line 306)
CleanupKill ==
    /\ InCleanup("c_kill")
    /\ IF Alive
       THEN /\ dev_process' = [dev_process EXCEPT !.state = "exited", !.returncode = -9]
            /\ hist' = [hist EXCEPT !.killSent = TRUE]
       ELSE UNCHANGED <<dev_process, hist>>
    /\ CleanupReturn
    /\ UNCHANGED <<hostVars, pipe, elapsed, app_started, ret, exit_status, signals>>

\* self.dev_process.kill() (line 306) returns as soon as SIGKILL is sent; the
\* code does not wait() for the child, which is gone a moment later
CleanupKillPending ==
    /\ InCleanup("c_kill")
    /\ dev_process.state = "alive"
    /\ dev_process' = [dev_process EXCEPT !.state = "killed"]
    /\ hist' = [hist EXCEPT !.killSent = TRUE]
    /\ CleanupReturn
    /\ UNCHANGED <<hostVars, pipe, elapsed, app_started, ret, exit_status, signals>>

\* A main() that always ends with status 0.
LaunchReturn_zero ==
    /\ InMain /\ pc = "launch_ret"
    /\ pc' = "exited"
    /\ exit_status' = "0"
    /\ UNCHANGED <<hostVars, childVars, hist, hstack, ret, signals>>

\* launch() has returned (or SystemExit leaves it): main() ends the process
\* (lines 962-973)
LaunchReturn ==
    /\ InMain /\ pc = "launch_ret"
    /\ pc' = "exited"
    /\ exit_status' = IF ret \in {"true", "sysexit"} THEN "0" ELSE "1"
    /\ UNCHANGED <<hostVars, childVars, hist, hstack, ret, signals>>

(***************************************************************************)
(* Signals.                                                                *)
(***************************************************************************)
\* SIGINT or SIGTERM: signal_handler starts, with cleanup() (lines 288-290)
Signal ==
    /\ exit_status = "running"
    /\ pc # "start"
    /\ signals < MaxSignals
    /\ signals' = signals + 1
    /\ hstack' = Append(hstack, "c_poll")
    /\ UNCHANGED <<hostVars, childVars, hist, pc, ret, exit_status>>

\* Statements of the main thread inside a bare `except:`, and where the main
\* thread goes on when SystemExit is swallowed there.
SwallowNext(p) ==
    CASE p = "env_node"     -> "confirm"       \* check_command_exists: return False
      [] p = "env_npm"      -> "confirm"
      [] p = "env_node_ver" -> "env_npm"       \* get_command_version: return "未知"
      [] p = "env_npm_ver"  -> "env_pkg"
      [] p = "fc_node"      -> "fc_npm"        \* check_command_exists: return False
      [] p = "fc_npm"       -> "fc_files"
      [] p = "fc_node_ver"  -> "fc_npm"        \* get_command_version: return "未知"
      [] p = "fc_npm_ver"   -> "fc_files"
      [] p = "npm_kill"     -> "npm_run"       \* _kill_node_processes: pass
      [] p = "b_kill"       -> "b_stale"
      [] p = "d_kill"       -> "d_dots"
      [] p = "l_read"       -> "l_timeout"     \* time.sleep(0.1); continue
      [] p = "c_term"       -> "launch_ret"    \* cleanup(): pass
      [] p = "c_wait"       -> "launch_ret"
Swallows == {"env_node", "env_npm", "env_node_ver", "env_npm_ver",
             "fc_node", "fc_npm", "fc_node_ver", "fc_npm_ver",
             "npm_kill", "b_kill", "d_kill", "l_read", "c_term", "c_wait"}
\* Statements of the main thread after launch()'s try block: nothing catches.
Escapes == {"c_poll", "c_kill", "launch_ret"}

\* SystemExit raised in the handlers hs: a handler interrupted inside cleanup()'s
\* try block swallows it and goes on; any other one is left.
RECURSIVE Unwind(_)
Unwind(hs) ==
    IF hs = <<>>
    THEN [hs |-> <<>>, toMain |-> TRUE]
    ELSE IF hs[Len(hs)] \in {"c_term", "c_wait"}
         THEN [hs |-> [hs EXCEPT ![Len(hs)] = "h_exit"], toMain |-> FALSE]
         ELSE Unwind(Front(hs))

\* sys.exit(0) at the end of signal_handler (line 291)
HandlerExit ==
    /\ exit_status = "running"
    /\ hstack # <<>>
    /\ CurPc = "h_exit"
    /\ LET u == Unwind(Front(hstack))
       IN  /\ hstack' = u.hs
           /\ IF ~u.toMain
              THEN UNCHANGED <<pc, ret, exit_status>>
              ELSE CASE pc \in Escapes ->
                          /\ pc' = "exited"
                          /\ exit_status' = "0"
                          /\ UNCHANGED ret
                     [] pc = "confirm" ->             \* confirm_action: return False
                          /\ pc' = "c_poll"
                          /\ ret' = "false"
                          /\ UNCHANGED exit_status
                     [] pc \in Swallows ->
                          /\ pc' = SwallowNext(pc)
                          /\ UNCHANGED <<ret, exit_status>>
                     [] OTHER ->                      \* leaves the try block
                          /\ pc' = "c_poll"
                          /\ ret' = "sysexit"
                          /\ UNCHANGED exit_status
           \* subprocess.run kills its command when an exception passes through
           \* it; the Popen of npm install is left running
           /\ jobs' = IF u.toMain /\ pc \in {"b_main_run", "b_renderer_run"}
                      THEN jobs \ {"main", "renderer"}
                      ELSE jobs
           \* check_command_exists() that swallowed SystemExit returned False
           /\ hist' = [hist EXCEPT !.env = IF u.toMain /\ pc \in {"env_node", "env_npm"}
                                           THEN "failed" ELSE @]
           \* the check goes on: checks_failed += 1 after a False, checks_passed
           \* += 1 after a version
           /\ IF u.toMain /\ pc \in {"fc_node", "fc_npm"} THEN Count(FALSE)
              ELSE IF u.toMain /\ pc \in {"fc_node_ver", "fc_npm_ver"} THEN Count(TRUE)
              ELSE UNCHANGED checker
    /\ UNCHANGED <<fs, trail, cfg, pack, node_modules, port, need, error_log,
                   childVars, signals>>

(***************************************************************************)
(* The supervised application and the clock.                               *)
(***************************************************************************)
\* The line holds a readiness keyword of the launch mode, in whatever case.
HasReadyKeyword(line) ==
    \E i \in DOMAIN line :
        line[i].text \in (IF cfg.dev THEN DevReadyKeywords ELSE ProdReadyKeywords)

InLoop == pc \in {"l_timeout", "l_poll", "l_read"}

\* The child writes a line to its output (what it writes once the supervision
\* loop is over is never read).
ChildPrint(line) ==
    /\ dev_process.state = "alive" /\ InLoop
    /\ Len(pipe) < MaxPipe
    /\ pipe' = Append(pipe, line)
    /\ hist' = [hist EXCEPT !.readyInWindow =
                   @ \/ (HasReadyKeyword(line) /\ elapsed <= startup_timeout)]
    /\ UNCHANGED <<hostVars, dev_process, elapsed, app_started,
                   pc, hstack, ret, exit_status, signals>>

\* The child ends on its own.
ChildExit(code) ==
    /\ dev_process.state = "alive"
    /\ dev_process' = [dev_process EXCEPT !.state = "exited", !.returncode = code]
    /\ UNCHANGED <<hostVars, pipe, elapsed, app_started,
                   hist, pc, hstack, ret, exit_status, signals>>

\* The child ends on the SIGTERM it was sent (a child that ignores SIGTERM
\* never takes this step).
ChildTermExit ==
    /\ dev_process.state = "alive"
    /\ hist.termSent
    /\ dev_process' = [dev_process EXCEPT !.state = "exited", !.returncode = -15]
    /\ UNCHANGED <<hostVars, pipe, elapsed, app_started,
                   hist, pc, hstack, ret, exit_status, signals>>

\* The child that was sent SIGKILL is gone.
ChildKilledExit ==
    /\ dev_process.state = "killed"
    /\ dev_process' = [dev_process EXCEPT !.state = "exited", !.returncode = -9]
    /\ UNCHANGED <<hostVars, pipe, elapsed, app_started,
                   hist, pc, hstack, ret, exit_status, signals>>

\* The launcher is blocked: in readline() on an empty pipe, or in the
\* wait(timeout=5) of a cleanup() that interrupted the supervision loop.
Blocked ==
    /\ exit_status = "running"
    /\ Alive
    /\ \/ CurPc = "l_read" /\ pipe = <<>>
       \/ CurPc = "c_wait"

\* Time passes (elapsed is read by the supervision loop only).
Tick ==
    /\ Blocked /\ InLoop
    /\ \E t \in Instants : t > elapsed /\ elapsed' = t
    /\ UNCHANGED <<hostVars, dev_process, pipe, app_started,
                   hist, pc, hstack, ret, exit_status, signals>>

\* EnvironmentChecker.run_full_check(): the five checks, one after another
\* (lines 254-259).
FullCheckStep ==
    \/ run_full_check
    \/ \E ok \in BOOLEAN : check_python(ok)
    \/ check_nodejs \/ check_nodejs_version
    \/ \E found \in BOOLEAN : check_npm(found)
    \/ check_npm_version
    \/ \E found \in BOOLEAN : check_project_files(found)
    \/ check_dependencies

\* launch() up to the spawn of the application.
PreSpawnStep ==
    \/ Setup
    \/ EnvNode \/ EnvNodeVer \/ EnvNpm \/ EnvNpmVer \/ EnvPkg
    \/ \E yes \in BOOLEAN : Confirm(yes)
    \/ FullCheckStep \/ FullCheckReturn
    \/ install_dependencies
    \/ _kill_node_processes
    \/ \E ok \in BOOLEAN : StartNpmInstall(ok)
    \/ \E ok \in BOOLEAN, leaves_dir \in BOOLEAN : _run_npm_install(ok, leaves_dir)
    \/ DevDots
    \/ BuildStale({})
    \/ StartBuildMain
    \/ \E result \in Results : BuildMain(result)
    \/ StartBuildRenderer
    \/ \E result \in Results, log_ok \in BOOLEAN : BuildRenderer(result, log_ok)
    \/ CheckFiles
    \/ \E ok \in BOOLEAN : Spawn(ok)

MainStep ==
    \/ PreSpawnStep
    \/ LoopTimeout \/ LoopPoll \/ LoopRead \/ LoopReadEof
    \/ wait_for_exit
    \/ LaunchReturn

CleanupStep ==
    \/ CleanupPoll \/ CleanupTerminate \/ CleanupWaitDone
    \/ CleanupWaitTimeout \/ CleanupKill

LauncherStep == MainStep \/ CleanupStep \/ HandlerExit

EnvironmentStep ==
    \/ Signal
    \/ \E line \in Lines : ChildPrint(line)
    \/ \E code \in {0, 1} : ChildExit(code)
    \/ ChildTermExit
    \/ Tick

Next == LauncherStep \/ EnvironmentStep

vars == <<fs, trail, checker, cfg, pack, node_modules, port, pc, hstack, ret, exit_status, need,
          jobs, error_log, dev_process, pipe, elapsed, app_started, signals, hist>>

Spec == Init /\ [][Next]_vars

\* The launcher's own statements always get to run, and time does not stop; the
\* child owes nothing: it may stay silent and alive for ever.
FairSpec == Spec /\ WF_vars(LauncherStep) /\ WF_vars(Tick)

(***************************************************************************)
(* The launch up to the spawn of the application (environment check,       *)
(* install, incremental build), from more project directories; the         *)
(* application, once spawned, does nothing but end when it is terminated.  *)
(***************************************************************************)
\* main.js is fresh and the renderer is not (src/renderer/App.tsx is newer)
RendererStale == Tree(File(0), File(1), File(0), File(1), File(1))
\* a source of the main process is dated later than the clock of the host
FutureSource  == Tree(File(MaxTime), File(1), File(1), File(1), File(1))
\* dist/main/main.js is there, newer than every source, and holds nothing
Truncated     == Tree(File(1), [File(1) EXCEPT !.kind = "empty"], File(1), File(1), File(1))
\* dist/renderer.js is a directory
DirArtifact   == Tree(File(1), File(1), [File(1) EXCEPT !.kind = "dir"], File(1), File(1))

BuildFs == LaunchFs \cup {RendererStale, FutureSource, Truncated, DirArtifact}

BuildInit ==
    /\ pack = NoPack
    /\ cfg \in [dev : BOOLEAN, fast : BOOLEAN, check : {FALSE}, help : {FALSE},
                tools : {"ok", "no_node", "no_npm", "no_package_json"}]
    /\ ~(cfg.dev /\ cfg.fast)
    /\ node_modules \in BOOLEAN
    /\ port \in {"free", "foreign"}
    /\ fs \in BuildFs
    /\ cfg.fast => cfg.tools = "ok" /\ node_modules
    /\ cfg.dev => fs = UpToDate
    /\ LaunchInit
    /\ trail = NoTrail

BuildNext ==
    \/ PreSpawnStep
    \/ LaunchReturn
    \/ CleanupStep
    \/ HandlerExit
    \/ Signal
    \/ ChildTermExit

SpecBuild == BuildInit /\ [][BuildNext]_vars

(***************************************************************************)
(* The supervision loop alone, from the spawn on, with a child whose       *)
(* output holds error keywords; no signal arrives.                         *)
(***************************************************************************)
\* What the child may print: lines with 'failed' or 'cannot' and no 'error',
\* 'ERROR' alone, a GPU error, 'database error' (readiness in production mode),
\* 'GPU ... failed', and two lines with no error keyword (the second tells
\* readiness in development mode).
OutputLines ==
    { <<Piece("build", TRUE), Piece("failed", FALSE)>>,
      <<Piece("cannot", TRUE), Piece("find module", FALSE)>>,
      <<Piece("error", TRUE)>>,
      <<Piece("gpu", TRUE), Piece("error", FALSE)>>,
      <<Piece("database", FALSE), Piece("error", FALSE)>>,
      <<Piece("gpu", FALSE), Piece("failed", TRUE)>>,
      <<Piece("loading", FALSE)>>,
      <<Piece("compiled successfully", FALSE)>> }

\* launch() has reached the spawn: a fast launch of an up-to-date build, or a
\* development launch that passed its checks.
SuperviseInit ==
    /\ pack = NoPack
    /\ cfg \in { [dev |-> FALSE, fast |-> TRUE, check |-> FALSE, help |-> FALSE, tools |-> "ok"],
                 [dev |-> TRUE, fast |-> FALSE, check |-> FALSE, help |-> FALSE, tools |-> "ok"] }
    /\ fs = UpToDate
    /\ node_modules = TRUE
    /\ port = "free"
    /\ trail = NoTrail
    /\ checker = NoChecker
    /\ pc = "spawn"
    /\ hstack = <<>>
    /\ ret = "none"
    /\ exit_status = "running"
    /\ need = [main |-> FALSE, renderer |-> FALSE]
    /\ jobs = {}
    /\ error_log = NoLog
    /\ dev_process = NoProcess
    /\ pipe = <<>>
    /\ elapsed = 0
    /\ app_started = FALSE
    /\ signals = 0
    /\ hist = [NoHist EXCEPT !.env = IF cfg.dev THEN "ok" ELSE "none"]

SuperviseNext ==
    \/ \E ok \in BOOLEAN : Spawn(ok)
    \/ LoopTimeout \/ LoopPoll \/ LoopRead \/ LoopReadEof
    \/ wait_for_exit
    \/ LaunchReturn
    \/ CleanupStep
    \/ \E line \in OutputLines : ChildPrint(line)
    \/ \E code \in {0, 1} : ChildExit(code)
    \/ ChildTermExit
    \/ Tick

SpecSupervise == SuperviseInit /\ [][SuperviseNext]_vars

(***************************************************************************)
(* The check-only run (`--check`), and a caller that runs run_full_check() *)
(* on the same EnvironmentChecker more than once, the host changing in     *)
(* between.                                                                *)
(***************************************************************************)
\* webpack.renderer.config.js is missing
NoConfig == Tree(File(1), File(1), File(1), Absent, File(1))

CheckInit ==
    /\ pack = NoPack
    /\ cfg \in [dev : {FALSE}, fast : {FALSE}, check : {TRUE}, help : {FALSE},
                tools : {"ok", "no_node", "no_npm", "no_package_json"}]
    /\ node_modules \in BOOLEAN
    /\ port = "free"
    /\ fs \in {UpToDate, NoConfig}
    /\ LaunchInit
    /\ trail = NoTrail

\* run_full_check() is called once more on the checker.
CallAgain ==
    /\ InMain /\ pc = "fc_done"
    /\ hist.fullChecks < MaxCalls
    /\ Goto("fc_start")
    /\ UNCHANGED <<hostVars, childVars, hist>>

\* Between two checks node_modules is installed by hand, or deleted.
HostChange ==
    /\ InMain /\ pc = "fc_done"
    /\ node_modules' = ~node_modules
    /\ UNCHANGED <<fs, trail, checker, cfg, pack, port, need, jobs, error_log, childVars,
                   hist, pc, hstack, ret, exit_status, signals>>

CheckNext ==
    \/ MainCheck
    \/ FullCheckStep
    \/ CheckExit
    \/ CallAgain
    \/ HostChange

SpecCheck == CheckInit /\ [][CheckNext]_vars

(***************************************************************************)
(* The launch up to the spawn on a host where another process (a cleaner,  *)
(* a build in another terminal) deletes build artifacts while the          *)
(* staleness checks run.                                                   *)
(***************************************************************************)
RacePaths == {MainJs, RendererJs, WebpackConfig}

RaceNext ==
    \/ BuildNext
    \/ \E gone \in SUBSET RacePaths : BuildStale(gone)

SpecRace == BuildInit /\ [][RaceNext]_vars

(***************************************************************************)
(* _get_latest_mtime on every source tree within the bounds: two watched   *)
(* files of the main process and one inside an ignored directory, each     *)
(* absent, or present with a time and readable or not.                     *)
(***************************************************************************)
IndexTs == Path(<<"src", "main">>, <<"index", ".", "t", "s">>)
ScanPaths == {CoreTs, IndexTs, VendorJs}

ScanInit ==
    /\ fs \in [ScanPaths -> FileStates]
    /\ trail = NoTrail
    /\ LaunchInit
    /\ pack = NoPack
    /\ cfg = [dev |-> FALSE, fast |-> FALSE, check |-> FALSE, help |-> FALSE, tools |-> "ok"]
    /\ node_modules = TRUE
    /\ port = "free"

\* src_mtime = self._get_latest_mtime(src_main, ['.ts', '.js']) (line 377), or
\* the same on src/renderer (line 395)
Scan(T) ==
    /\ hist.latestOf = "none"
    /\ hist' = [hist EXCEPT !.latestOf = T,
                            !.latest = _get_latest_mtime(fs, SourceDir(T), WatchedExt(T))]
    /\ UNCHANGED <<fs, trail, checker, cfg, pack, node_modules, port, pc, hstack, ret,
                   exit_status, need, jobs, error_log, childVars, signals>>

ScanNext == \E T \in Targets : Scan(T)

SpecScan == ScanInit /\ [][ScanNext]_vars

(***************************************************************************)
(* One launch after another: the operator starts the launcher again in the  *)
(* project directory as the launch before left it.                         *)
(***************************************************************************)
\* main() is run again (lines 936-973), once the launcher and the commands it
\* started have ended
Relaunch ==
    /\ exit_status # "running"
    /\ jobs = {}
    /\ pc' = "start"
    /\ hstack' = <<>>
    /\ ret' = "none"
    /\ exit_status' = "running"
    /\ need' = [main |-> FALSE, renderer |-> FALSE]
    /\ dev_process' = NoProcess
    /\ pipe' = <<>>
    /\ elapsed' = 0
    /\ app_started' = FALSE
    /\ hist' = [NoHist EXCEPT !.lastInstall = hist.install]
    /\ checker' = NoChecker
    /\ UNCHANGED <<fs, trail, cfg, pack, node_modules, port, jobs, error_log, signals>>

AgainNext == BuildNext \/ Relaunch

SpecAgain == BuildInit /\ [][AgainNext]_vars

(***************************************************************************)
(* The staleness checks applied to every project directory within the      *)
(* bounds, with the files changing between checks.                         *)
(***************************************************************************)
StaleInit ==
    /\ fs \in [AllPaths -> FileStates]
    /\ \A p \in AllPaths \ StatPaths : fs[p].statOk
    /\ fs[IndexHtml] = Absent
    /\ trail = NoTrail
    /\ LaunchInit
    /\ pack = NoPack
    /\ cfg = [dev |-> FALSE, fast |-> FALSE, check |-> FALSE, help |-> FALSE, tools |-> "ok"]
    /\ node_modules = TRUE
    /\ port = "free"

launchVars == <<checker, cfg, pack, node_modules, port, pc, hstack, ret, exit_status, need,
                jobs, error_log, dev_process, pipe, elapsed, app_started, signals, hist>>

\* One staleness check of target T.
Check(T) ==
    /\ trail' = [kind     |-> IF trail.kind = "touched" /\ trail.target = T
                              THEN "rechecked" ELSE "checked",
                 target   |-> T,
                 stale    |-> should_rebuild(T, fs),
                 readable |-> IF trail.kind = "touched" /\ trail.target = T
                              THEN trail.readable ELSE TRUE]
    /\ UNCHANGED <<fs, launchVars>>

\* A fresh verdict of trail.target is current and p is one of its watched
\* files, set to a time later than the artifact's.
BumpsWatched(p, t) ==
    /\ trail.kind = "checked"
    /\ ~trail.stale
    /\ Watched(trail.target, p)
    /\ t > fs[Artifact(trail.target)].mtime

\* The environment creates or touches a file.
Touch(p, t) ==
    /\ fs' = [fs EXCEPT ![p] = [exists |-> TRUE, mtime |-> t, statOk |-> @.statOk,
                                    kind |-> @.kind]]
    /\ trail' = IF BumpsWatched(p, t)
                THEN [kind |-> "touched", target |-> trail.target,
                      stale |-> FALSE, readable |-> fs[p].statOk]
                ELSE [NoTrail EXCEPT !.kind = "changed"]
    /\ UNCHANGED launchVars

\* The environment deletes a file.
Remove(p) ==
    /\ fs[p].exists
    /\ fs' = [fs EXCEPT ![p] = Absent]
    /\ trail' = [NoTrail EXCEPT !.kind = "changed"]
    /\ UNCHANGED launchVars

\* The environment makes a source file's timestamp unreadable, or readable again
\* (a directory without search permission: listed by os.walk, getmtime fails).
Chmod(p) ==
    /\ fs[p].exists
    /\ fs' = [fs EXCEPT ![p].statOk = ~@]
    /\ trail' = [NoTrail EXCEPT !.kind = "changed"]
    /\ UNCHANGED launchVars

StaleNext ==
    \/ \E T \in Targets : Check(T)
    \/ \E p \in Paths, t \in Times : Touch(p, t)
    \/ \E p \in Paths : Remove(p)
    \/ \E p \in StatPaths : Chmod(p)

SpecStale == StaleInit /\ [][StaleNext]_vars

\* The files changing, with no check in between: every project directory within
\* the bounds and every single change to it.
TouchNext ==
    \/ \E p \in Paths, t \in Times : Touch(p, t)
    \/ \E p \in Paths : Remove(p)
    \/ \E p \in StatPaths : Chmod(p)

SpecTouch == StaleInit /\ [][TouchNext]_vars

(***************************************************************************)
(* Claims about the launch, the supervision loop and cleanup().            *)
(***************************************************************************)
Exited == exit_status # "running"

\* C1: a SIGINT or SIGTERM delivered at any point after launch() installed its
\* handlers makes the launcher exit eventually, with the supervised application
\* no longer running at exit.
C1_SignalEndsLauncher == [](signals > 0 => <>(Exited /\ ~Alive))

\* C2: once a readiness keyword has been observed and while the child stays
\* alive, the launcher keeps supervising it or has gone on to wait_for_exit();
\* unless interrupted it neither gives the launch up nor terminates the child.
C2_ReadyChildIsKept ==
    app_started /\ hist.readyInWindow /\ Alive /\ signals = 0
        => (InLoop \/ pc = "wait") /\ ~hist.termSent /\ ~hist.killSent

\* C3: when the supervised process stays alive and no readiness keyword is ever
\* seen, the supervision loop eventually reports the startup timeout: it never
\* waits for ever.
C3_SilentChildTimesOut ==
    [](InLoop /\ Alive => <>(hist.timedOut \/ ~Alive \/ app_started \/ ~InLoop))

\* C4: the startup timeout is reported only when no readiness signal has been
\* observed: never once a readiness line, printed within the window, was read
\* and app_started set.
C4_TimeoutOnlyWithoutReady == hist.timedOut => ~(app_started /\ hist.readyInWindow)

PendingReady == \E i \in DOMAIN pipe : HasReadyKeyword(pipe[i])

\* C6: a line with a readiness keyword (in any case) printed by the live child
\* before the timeout has elapsed is marked (app_started) as soon as it is read,
\* and it is read before any timeout branch fires (as long as the launcher has not
\* itself begun to terminate the child on an interrupt).
C6_ReadyMarkedBeforeTimeout ==
    hist.readyInWindow /\ ~hist.termSent /\ (hist.timedOut \/ ~PendingReady)
        => app_started

\* 'window created' printed at 2 s with the 30 s timeout: marked at 2 s, no timeout
C6_Witness ==
    /\ ~cfg.dev /\ elapsed = 2 /\ signals = 0
    /\ app_started /\ hist.readyInWindow /\ ~hist.timedOut
    /\ pc = "l_timeout" /\ Alive

\* C7: the kill is issued only after a terminate and an expired grace period,
\* and nothing else of the launcher kills the process it owns.
C7_KillOnlyAfterGrace ==
    /\ hist.killSent => hist.termSent /\ hist.graceExpired
    /\ CurPc = "c_kill" => hist.termSent /\ hist.graceExpired
    /\ ~hist.portKill

C7_Witness ==
    hist.killSent /\ hist.termSent /\ dev_process.returncode = -9 /\ signals = 0

(***************************************************************************)
(* Claims about the staleness checks (under SpecStale).                    *)
(***************************************************************************)
\* The verdict in trail is the verdict of its target on the files as they are.
VerdictCurrent == trail.kind \in {"checked", "rechecked"}

\* Every file in the source tree of T is no newer than the artifact of T.
TreeNotNewer(T) ==
    \A p \in Paths : InTree(T, p) /\ fs[p].exists => fs[p].mtime <= fs[Artifact(T)].mtime

\* C8: for both targets, when the artifact file does not exist the staleness check
\* returns stale, whatever the source tree holds.
C8_MissingArtifactIsStale ==
    VerdictCurrent /\ ~fs[Artifact(trail.target)].exists => trail.stale

C8_Witness ==
    /\ VerdictCurrent /\ trail.target = "main" /\ trail.stale
    /\ ~fs[MainJs].exists /\ ~fs[CoreTs].exists /\ ~fs[VendorJs].exists

\* C9 as stated: for both targets, when the artifact exists and every file in the
\* target's source tree has mtime <= the artifact's mtime, the check returns fresh.
C9_Original ==
    VerdictCurrent /\ fs[Artifact(trail.target)].exists /\ TreeNotNewer(trail.target)
        => ~trail.stale

\* C9 amended: ... and, for the renderer, webpack.renderer.config.js is absent or
\* no newer than the artifact either; then the check returns fresh (ties included).
C9_FreshWhenNothingNewer ==
    /\ VerdictCurrent
    /\ fs[Artifact(trail.target)].exists
    /\ TreeNotNewer(trail.target)
    /\ (trail.target = "renderer" /\ fs[WebpackConfig].exists
          => fs[WebpackConfig].mtime <= fs[RendererJs].mtime)
    => ~trail.stale

C9_Witness ==
    /\ VerdictCurrent /\ trail.target = "renderer" /\ ~trail.stale
    /\ fs[AppTsx].exists /\ fs[AppTsx].statOk
    /\ fs[AppTsx].mtime = fs[RendererJs].mtime /\ fs[AppTsx].mtime > 0
    /\ fs[WebpackConfig].exists

\* C10 as stated: from a fresh verdict, setting the mtime of any single watched
\* file later than the artifact's makes the next check of that target return stale.
C10_Original == trail.kind = "rechecked" => trail.stale

\* C10 amended: the same, for a watched file whose modification time can be read
\* (a file whose getmtime raises is skipped by _get_latest_mtime).
C10_TouchedReadableFlips == trail.kind = "rechecked" /\ trail.readable => trail.stale

C10_Witness ==
    /\ trail.kind = "rechecked" /\ trail.readable /\ trail.stale
    /\ trail.target = "main" /\ fs[CoreTs].mtime > fs[MainJs].mtime

\* The files this step creates or whose modification time it sets, when it
\* changes nothing else.
TouchedOnly ==
    IF fs' = fs
    THEN {}
    ELSE LET changed == {p \in DOMAIN fs : fs'[p] # fs[p]}
         IN  IF \A p \in changed :
                    fs'[p] = [fs[p] EXCEPT !.exists = TRUE, !.mtime = fs'[p].mtime]
             THEN changed
             ELSE {}

\* C11: touching a watched file in the source tree of one target leaves the
\* verdict of the other target as it was.
C11_TouchChangesOwnTargetOnly ==
    [][\A p \in TouchedOnly, T \in Targets :
          Watched(T, p)
              => \A U \in Targets \ {T} :
                     should_rebuild(U, fs') = should_rebuild(U, fs)]_vars

\* a main source newer than main.js: main is stale, the renderer is not
C11_Witness ==
    /\ trail.kind = "changed"
    /\ exists(fs, MainJs) /\ fs[CoreTs].exists /\ fs[CoreTs].statOk
    /\ fs[CoreTs].mtime > fs[MainJs].mtime /\ fs[CoreTs].mtime > fs[RendererJs].mtime
    /\ should_rebuild("main", fs)
    /\ exists(fs, RendererJs) /\ ~should_rebuild("renderer", fs)

\* p lies below an ignored directory of the source tree of T.
InIgnored(T, p) ==
    /\ InTree(T, p)
    /\ \E i \in (Len(SourceDir(T)) + 1)..Len(p.dirs) : p.dirs[i] \in IgnoredDirs

\* C12: creating or touching a file below an ignored directory of a target's
\* source tree changes neither the result of _get_latest_mtime nor the verdict.
C12_IgnoredDirsNeverCount ==
    [][\A p \in TouchedOnly, T \in Targets :
          InIgnored(T, p)
              => /\ _get_latest_mtime(fs', SourceDir(T), WatchedExt(T))
                      = _get_latest_mtime(fs, SourceDir(T), WatchedExt(T))
                 /\ should_rebuild(T, fs') = should_rebuild(T, fs)]_vars

\* a file below src/main/lib/dist newer than main.js, and main is not stale
C12_Witness ==
    /\ trail.kind = "changed"
    /\ fs[VendorJs].exists /\ exists(fs, MainJs)
    /\ fs[VendorJs].mtime > fs[MainJs].mtime
    /\ ~should_rebuild("main", fs)

(***************************************************************************)
(* Claims about the install and the incremental build (under SpecBuild).   *)
(***************************************************************************)
\* The staleness checks of this run have returned and the build step is on.
Judged == pc \in {"b_main", "b_main_run", "b_renderer", "b_renderer_run", "b_files"}

RegularNonEmpty(p) == fs[p].exists /\ fs[p].kind = "file"

\* C13: whenever a staleness check returned fresh for a target, the artifact of
\* that target is a regular file that is not empty.
C13_FreshArtifactIsRegularNonEmpty ==
    Judged => /\ ~need.main => RegularNonEmpty(MainJs)
              /\ ~need.renderer => RegularNonEmpty(RendererJs)

\* Every build this run needed has succeeded: the step is past both builds.
BuildsDone == pc = "b_files"

\* What the staleness checks of a second run would return on the files as they are.
SecondRunBuilds == _should_rebuild_main(fs) \/ _should_rebuild_renderer(fs)

NoFutureSource ==
    \A p \in SourcePaths \cup {WebpackConfig} : fs[p].exists => fs[p].mtime <= BuildTime

C15_BuildOnlyWhenStale ==
    /\ "main" \in jobs \/ hist.mainBuild # "none" => need.main
    /\ "renderer" \in jobs \/ hist.rendererBuild # "none" => need.renderer

C15_Witness ==
    /\ BuildsDone /\ ~need.main /\ need.renderer
    /\ hist.mainBuild = "none" /\ hist.rendererBuild = "ok"

\* C16: when the main build exits non-zero, the renderer build is not invoked,
\* the application is not spawned and the step reports failure.
C16_FailedMainStopsTheStep ==
    hist.mainBuild = "failed"
        => /\ hist.rendererBuild = "none" /\ "renderer" \notin jobs
           /\ dev_process = NoProcess
           /\ ret = "false"

C16_Witness ==
    hist.mainBuild = "failed" /\ need.renderer /\ exit_status = "1"

\* C17: install and build commands never overlap: at most one runs at a time,
\* the renderer build runs only once the main build has ended well or was
\* skipped, and a build runs only once the install has returned.
C17_CommandsNeverOverlap ==
    /\ Cardinality(jobs) <= 1
    /\ "renderer" \in jobs => hist.mainBuild = "ok" \/ ~need.main
    /\ "main" \in jobs => hist.rendererBuild = "none"
    /\ jobs \cap {"main", "renderer"} # {} => hist.install \in {"none", "ok"}

C17_Witness ==
    jobs = {"renderer"} /\ hist.mainBuild = "ok" /\ hist.install = "ok"

\* Reading build_error.log back: the block under a header runs to the next
\* header or to the end of the file.
LogHeaders == {StderrBlock, StdoutBlock, CodeBlock}
HasBlock(text, header) == \E i \in DOMAIN text : text[i] = header
BlockOf(text, header) ==
    LET i == CHOOSE k \in DOMAIN text : text[k] = header
        ends == {k \in (i + 1)..Len(text) : text[k] \in LogHeaders} \cup {Len(text) + 1}
        j == CHOOSE k \in ends : \A m \in ends : k <= m
    IN  SubSeq(text, i + 1, j - 1)

\* The number a block of decimal digits spells (-1000 when it spells none).
RECURSIVE Decimal(_)
Decimal(digits) ==
    IF digits = <<>> \/ \E i \in DOMAIN digits : \A d \in 1..10 : DigitChars[d] # digits[i]
    THEN 0 - 1000
    ELSE LET last == CHOOSE d \in 0..9 : DigitChars[d + 1] = digits[Len(digits)]
         IN  IF Len(digits) = 1 THEN last
             ELSE 10 * Decimal(Front(digits)) + last

\* build_error.log tells of the failure r: its stderr and its stdout, each in its
\* block (something stands there when the stream was empty), and its exit code.
LogTells(r) ==
    /\ error_log.exists
    /\ \A header \in LogHeaders : HasBlock(error_log.text, header)
    /\ IF r.stderr # <<>>
       THEN BlockOf(error_log.text, StderrBlock) = r.stderr
       ELSE BlockOf(error_log.text, StderrBlock) # <<>>
    /\ IF r.stdout # <<>>
       THEN BlockOf(error_log.text, StdoutBlock) = r.stdout
       ELSE BlockOf(error_log.text, StdoutBlock) # <<>>
    /\ Decimal(BlockOf(error_log.text, CodeBlock)) = r.returncode

\* C18: for the main target as for the renderer target, when the build command
\* exits non-zero the failure log with its stderr, stdout and exit code has been
\* written when the step reports failure (for the renderer: unless writing the
\* log raised).
C18_EveryFailedBuildIsLogged ==
    /\ hist.mainBuild = "failed" => LogTells(hist.failure)
    /\ hist.rendererBuild = "failed" /\ hist.logSaved => LogTells(hist.failure)

\* C19 as stated: when the renderer build exits non-zero the step reports
\* failure and build_error.log exists and tells of it.
C19_Original ==
    hist.rendererBuild = "failed" => ret = "false" /\ LogTells(hist.failure)

\* C19 amended: when the renderer build exits non-zero the step reports
\* failure, and build_error.log tells of it unless writing the log raised.
C19_FailedRendererIsLogged ==
    hist.rendererBuild = "failed"
        => /\ ret = "false"
           /\ hist.logSaved => LogTells(hist.failure)

\* exit code 2 and stderr 'syntax error', nothing on stdout
C19_Witness ==
    /\ hist.rendererBuild = "failed" /\ hist.logSaved /\ ret = "false"
    /\ hist.failure = Result(2, <<"syntax", "error">>, <<>>)
    /\ BlockOf(error_log.text, StderrBlock) = <<"syntax", "error">>
    /\ BlockOf(error_log.text, StdoutBlock) = <<NoStdout>>
    /\ BlockOf(error_log.text, CodeBlock) = <<"2">>

\* C20: when node_modules exists, install_dependencies returns success without
\* starting npm install and leaves node_modules as it is (so that calling it
\* again does the same); npm install is only ever started without node_modules.
C20_NoInstallWhenCached ==
    [][/\ pc = "install" /\ pc' # "install" /\ node_modules
           => /\ node_modules' /\ jobs' = jobs /\ hist'.install = "none"
              /\ pc' = ModeEntry \/ ret' = "sysexit"
       /\ "install" \in jobs' /\ "install" \notin jobs => ~node_modules]_vars

C20_Witness ==
    /\ ~cfg.fast /\ node_modules /\ pc = ModeEntry
    /\ hist.install = "none" /\ jobs = {} /\ signals = 0

(***************************************************************************)
(* Claims about the install step, the order of the launch and its exit     *)
(* status.                                                                 *)
(***************************************************************************)
\* C21: when node_modules is absent and npm install exits non-zero, the install
\* step tries again: it gives up (reports the failure) only after more than one
\* call of the install command.
C21_FailedInstallIsRetried == hist.install = "failed" => hist.installs > 1

\* C22: a failed install is never taken for a completed one: in the launch that
\* follows a launch whose npm install failed, install_dependencies does not
\* return success unless npm install ran again and succeeded.
C22_FailedInstallIsRedone ==
    hist.lastInstall = "failed" /\ ~cfg.fast /\ pc = ModeEntry
        => hist.install = "ok"

InstallInvoked == hist.installs > 0
BuildInvoked ==
    \/ hist.mainBuild # "none" \/ hist.rendererBuild # "none"
    \/ jobs \cap {"main", "renderer"} # {}
Spawned == dev_process.state # "none"

\* C23: a launch that is not in fast mode runs the environment check, the
\* install, the build and the spawn in this order, and the first step that
\* fails ends it: no install after a failed environment check, no build after
\* a failed install, no spawn after a failed build; and a later step is only
\* ever reached with the earlier ones passed.
C23_StepsInOrderAndShortCircuit ==
    ~cfg.fast =>
        /\ hist.env = "failed" => ~InstallInvoked /\ ~BuildInvoked /\ ~Spawned
        /\ hist.install = "failed" => ~BuildInvoked /\ ~Spawned
        /\ hist.mainBuild = "failed" \/ hist.rendererBuild = "failed" => ~Spawned
        /\ InstallInvoked \/ pc \in {"install", "npm_kill", "npm_run", "npm_wait"}
               => hist.env = "ok"
        /\ BuildInvoked \/ Judged \/ Spawned
               => hist.env = "ok" /\ hist.install # "failed" /\ "install" \notin jobs
        /\ Spawned => jobs = {}

\* every step ran and passed: checks, npm install, both builds, the spawn
C23_Witness ==
    /\ ~cfg.fast /\ hist.env = "ok" /\ hist.installs = 1 /\ hist.install = "ok"
    /\ hist.mainBuild = "ok" /\ hist.rendererBuild = "ok"
    /\ dev_process.state = "alive" /\ signals = 0

\* The launch is inside check_environment(), the detailed check or
\* install_dependencies().
InChecksOrInstall ==
    pc \in {"env_node", "env_node_ver", "env_npm", "env_npm_ver", "env_pkg",
            "confirm", "fc_start", "fc_python", "fc_node", "fc_node_ver", "fc_npm",
            "fc_npm_ver", "fc_files", "fc_deps", "fc_done",
            "install", "npm_kill", "npm_run", "npm_wait"}

\* C24 as stated: in fast mode the launch performs no environment check, no
\* install, no staleness check and no build command.
C24_Original ==
    cfg.fast => /\ ~InChecksOrInstall /\ hist.env = "none" /\ ~InstallInvoked
                /\ ~Judged /\ ~BuildInvoked

\* C24: in fast mode the launch performs no environment check and no install
\* (it is never inside either, and neither leaves a trace): it goes straight
\* to the start step of its mode.
C24_FastSkipsChecksAndInstall ==
    cfg.fast => /\ ~InChecksOrInstall /\ hist.env = "none" /\ ~InstallInvoked
                /\ hist.install = "none" /\ "install" \notin jobs

\* a fast launch that found both targets stale, built them and spawned
C24_Witness ==
    /\ cfg.fast /\ hist.mainBuild = "ok" /\ hist.rendererBuild = "ok"
    /\ dev_process.state = "alive" /\ hist.env = "none" /\ hist.installs = 0

\* A step of the launch failed: the environment check, npm install, a build,
\* or the supervised process ended with a non-zero code.
StepFailed ==
    \/ hist.env = "failed"
    \/ hist.install = "failed"
    \/ hist.mainBuild = "failed" \/ hist.rendererBuild = "failed"
    \/ dev_process.state = "exited" /\ dev_process.returncode # 0

\* The application was started, ran and ended with code 0, and no step failed.
RunSucceeded ==
    /\ dev_process.state = "exited" /\ dev_process.returncode = 0
    /\ ~StepFailed /\ ~hist.timedOut

\* C25: when no signal cancels the launch, the launcher's exit status is 1 on
\* every failure path (failed environment check, failed install, failed build,
\* supervised process ending with a non-zero code) and 0 only when the run
\* succeeded.
C25_ExitStatusTellsOutcome ==
    Exited /\ signals = 0
        => /\ exit_status \in {"0", "1"}
           /\ StepFailed => exit_status = "1"
           /\ exit_status = "0" => RunSucceeded

\* the supervised process ended on its own with code 1 before any timeout
C25_Witness ==
    /\ Exited /\ signals = 0 /\ exit_status = "1" /\ ~hist.timedOut
    /\ dev_process.state = "exited" /\ dev_process.returncode = 1

\* C26: when the operator cancels the launch (SIGINT or SIGTERM), at whatever
\* point, the launcher's exit status is 1.
C26_CancelExitsWithOne == Exited /\ signals > 0 => exit_status = "1"

\* C27: when the child ends on its own during the startup supervision, the
\* step succeeds if its exit code is 0 and fails if it is not, in production
\* and in development mode alike.
C27_ChildExitCodeDecides ==
    (signals = 0 /\ ~hist.timedOut /\ dev_process.state = "exited" /\ ~InLoop)
        => (ret = "false" <=> dev_process.returncode # 0)

(***************************************************************************)
(* Claims about the lines the supervision loop reads.                      *)
(***************************************************************************)
\* The loop takes the first line of the pipe.
ReadsLine == pc = "l_read" /\ pipe # <<>> /\ pipe' = Tail(pipe)

HasWord(line, words) == \E i \in DOMAIN line : line[i].text \in words

\* C28: a line that holds 'error', 'failed' or 'cannot' (in whatever case) goes
\* to the error channel, unless it holds 'error' and 'gpu'; a line with none of
\* the three never does.
C28_ErrorLinesAreSurfaced ==
    [][ReadsLine =>
         hist'.surfaced =
             IF /\ HasWord(Head(pipe), ErrorKeywords)
                /\ ~(HasWord(Head(pipe), {"error"}) /\ HasWord(Head(pipe), {"gpu"}))
             THEN Head(pipe) ELSE <<>>]_vars

\* C29: reading a line with an error keyword never changes how the supervision
\* goes: readiness is set exactly when the line also holds a readiness keyword
\* ('database error' marks readiness) and is never cleared, the loop goes on,
\* the child is left as it is, nothing is returned and no time is lost.
C29_ErrorLineChangesNothing ==
    [][ReadsLine /\ HasWord(Head(pipe), ErrorKeywords) =>
         /\ app_started' = (app_started \/ HasReadyKeyword(Head(pipe)))
         /\ pc' = "l_timeout"
         /\ dev_process' = dev_process
         /\ ret' = ret /\ exit_status' = exit_status
         /\ elapsed' = elapsed
         /\ hist'.timedOut = hist.timedOut /\ hist'.termSent = hist.termSent]_vars

\* 'database error' was read in production mode: reported as an error, and the
\* application counts as started
C29_Witness ==
    /\ ~cfg.dev /\ pc = "l_timeout" /\ ret = "none" /\ Alive
    /\ hist.surfaced = <<Piece("database", FALSE), Piece("error", FALSE)>>
    /\ app_started

(***************************************************************************)
(* Claims about the full environment check.                                *)
(***************************************************************************)
\* The checks run_full_check() has carried out when the main thread is at pc.
ChecksDone ==
    CASE pc = "fc_python"                  -> 0
      [] pc \in {"fc_node", "fc_node_ver"} -> 1
      [] pc \in {"fc_npm", "fc_npm_ver"}   -> 2
      [] pc = "fc_files"                   -> 3
      [] pc = "fc_deps"                    -> 4
      [] OTHER                             -> 5

\* C30: run_full_check() carries out all five checks whatever failed before,
\* each counted once as passed or failed, from counters set back to zero: when
\* it is over checks_passed + checks_failed = 5, on every call; and it returns
\* true (exit status 0 of the check-only run) exactly when checks_failed = 0.
C30_FiveChecksCounted ==
    /\ pc \in {"fc_python", "fc_node", "fc_node_ver", "fc_npm", "fc_npm_ver",
               "fc_files", "fc_deps", "fc_done", "exited"}
           => checker.checks_passed + checker.checks_failed = ChecksDone
    /\ Exited => (exit_status = "0" <=> checker.checks_failed = 0)

\* the second check on a host without node: the first check of three failed
\* ones did not stop it
C30_Witness ==
    /\ pc = "fc_done" /\ hist.fullChecks = 2 /\ cfg.tools = "no_node"
    /\ checker = [checks_passed |-> 2, checks_failed |-> 3]

(***************************************************************************)
(* Claims about the staleness checks under errors, the spawn and cleanup(). *)
(***************************************************************************)
\* C31: the staleness checks never raise: also when an artifact is deleted by
\* another process between the existence test and the read of its time, they
\* return a verdict and the launch goes on.
C31_StalenessChecksNeverRaise == hist.raised = "none"

\* The watched files of T whose modification time can be read.
Readable(T) ==
    {p \in DOMAIN fs : Watched(T, p) /\ fs[p].exists /\ fs[p].statOk}

\* C32: a file whose modification time cannot be read is skipped, and only that
\* file: _get_latest_mtime returns the latest time among the watched files
\* that can be read, 0 when there is none, and never fails.
C32_UnreadableFileIsSkipped ==
    hist.latestOf # "none" =>
        /\ hist.latest \in Times
        /\ \A p \in Readable(hist.latestOf) : hist.latest >= fs[p].mtime
        /\ \/ hist.latest = 0
           \/ \E p \in Readable(hist.latestOf) : hist.latest = fs[p].mtime

\* the latest file of src/main cannot be read: the time of the other one is
\* returned
C32_Witness ==
    /\ hist.latestOf = "main" /\ hist.latest = 1
    /\ fs[CoreTs].exists /\ ~fs[CoreTs].statOk /\ fs[CoreTs].mtime = MaxTime
    /\ fs[IndexTs].exists /\ fs[IndexTs].statOk /\ fs[IndexTs].mtime = 1

\* C33: in one run of launch() the application is spawned at most once: a
\* child that crashed or timed out is never started again, so there is never
\* more than one supervised child.
C33_SpawnedAtMostOnce ==
    /\ hist.spawns <= 1
    /\ dev_process.state # "none" => hist.spawns = 1 /\ ~hist.spawnFailed

\* the child crashed during the supervision and the launcher has ended
C33_Witness ==
    /\ Exited /\ hist.spawns = 1 /\ ~hist.timedOut /\ signals = 0
    /\ dev_process.state = "exited" /\ dev_process.returncode = 1

\* C34: when the spawn of the application raises, the launch step returns
\* failure without entering the supervision loop or the wait, there is no
\* child to clean up (nothing is terminated or killed), and the launcher, when
\* no signal cancels it, exits with status 1.
C34_FailedSpawnIsFatal ==
    hist.spawnFailed =>
        /\ ret = "false"
        /\ ~InLoop /\ pc # "wait" /\ ~hist.reachedWait
        /\ dev_process = NoProcess
        /\ ~hist.termSent /\ ~hist.killSent
        /\ Exited /\ signals = 0 => exit_status = "1"

C34_Witness ==
    /\ hist.spawnFailed /\ Exited /\ exit_status = "1" /\ signals = 0
    /\ dev_process = NoProcess

\* dist/main/main.js, dist/renderer.js and dist/index.html are regular files.
OutputThere ==
    \A p \in {MainJs, RendererJs, IndexHtml} : fs[p].exists /\ fs[p].kind # "dir"

\* C35: in production mode the application is spawned only when main.js,
\* renderer.js and index.html are all there as regular files after the build
\* phase; when one is missing the step fails without a spawn, whatever the
\* staleness checks and the build commands said.
C35_SpawnOnlyWithBuildOutput ==
    ~cfg.dev =>
        /\ pc = "spawn" \/ hist.spawns > 0 => OutputThere
        /\ ~OutputThere /\ pc \in {"c_poll", "launch_ret", "exited"} /\ signals = 0
               => ret = "false" /\ hist.spawns = 0

\* the main build exited 0, the renderer was judged fresh, and dist/index.html
\* is not there
C35_Witness ==
    /\ ~cfg.dev /\ hist.mainBuild = "ok" /\ hist.rendererBuild = "none"
    /\ ~need.renderer /\ ~hist.spawnFailed
    /\ ~fs[IndexHtml].exists /\ fs[MainJs].exists /\ fs[RendererJs].exists
    /\ ret = "false" /\ hist.spawns = 0 /\ signals = 0

(***************************************************************************)
(* Stopping the application: the launcher from its spawn on, with signals, *)
(* and with a kill() that returns before the child is gone.                *)
(***************************************************************************)
StopNext ==
    \/ \E ok \in BOOLEAN : Spawn(ok)
    \/ LoopTimeout \/ LoopPoll \/ LoopRead \/ LoopReadEof
    \/ wait_for_exit
    \/ LaunchReturn
    \/ CleanupStep \/ CleanupKillPending
    \/ HandlerExit
    \/ Signal
    \/ \E line \in Lines : ChildPrint(line)
    \/ \E code \in {0, 1} : ChildExit(code)
    \/ ChildTermExit \/ ChildKilledExit
    \/ Tick

SpecStop == SuperviseInit /\ [][StopNext]_vars

\* A step of cleanup() itself from its statement p (not the arrival of a signal).
CleanupMoves(p) ==
    /\ exit_status = "running" /\ CurPc = p
    /\ Len(hstack') = Len(hstack)
    /\ <<pc, hstack>>' # <<pc, hstack>>

\* launch()'s finally block sends terminate() although an earlier cleanup()
\* (the signal handler's, run to its end) already did.
TerminatesAgain ==
    /\ hstack = <<>> /\ CleanupMoves("c_term")
    /\ signals <= 1 /\ Alive /\ hist.termSent

\* C36: cleanup() does nothing when no process was spawned or the process has
\* ended, and when the signal handler's cleanup() is followed by the one of
\* launch()'s finally block, the second one sends a terminate again only to a
\* child that the first one sent kill() and that is not gone yet, and never a
\* second kill.
C36_CleanupOfDeadChildIsNoOp ==
    [][ /\ (CleanupMoves("c_poll") /\ ~Alive) =>
              /\ CurPc' \in {"launch_ret", "h_exit"}
              /\ hist' = hist /\ dev_process' = dev_process
        /\ TerminatesAgain => dev_process.state = "killed"
        /\ (hstack = <<>> /\ CleanupMoves("c_kill") /\ signals <= 1) => ~hist.killSent
      ]_vars

\* The handler's cleanup() terminated the child, and the finally block's one
\* has returned without sending anything.
C36_Witness ==
    /\ pc = "launch_ret" /\ hstack = <<>> /\ ret = "sysexit" /\ signals = 1
    /\ hist.termSent /\ ~hist.killSent
    /\ dev_process.state = "exited" /\ dev_process.returncode = -15

\* C36 as stated: the second of the two calls never sends terminate.
C36_SecondCleanupSendsNothing ==
    [][~TerminatesAgain]_vars

(***************************************************************************)
(* The packaging scripts (src/build_app_enhanced.py, src/force_build.py).  *)
(* They run on their own: the launcher does not move while they do.        *)
(***************************************************************************)
launcherVars == <<fs, trail, checker, cfg, node_modules, port, pc, hstack, ret, exit_status,
                  need, jobs, error_log, dev_process, pipe, elapsed, app_started, signals,
                  hist>>

\* No launcher runs.
LauncherOff ==
    /\ cfg = [dev |-> FALSE, fast |-> FALSE, check |-> FALSE, help |-> FALSE, tools |-> "ok"]
    /\ fs = UpToDate
    /\ node_modules = TRUE
    /\ port = "free"
    /\ trail = NoTrail
    /\ checker = NoChecker
    /\ pc = "start"
    /\ hstack = <<>>
    /\ ret = "none"
    /\ exit_status = "running"
    /\ need = [main |-> FALSE, renderer |-> FALSE]
    /\ jobs = {}
    /\ error_log = NoLog
    /\ dev_process = NoProcess
    /\ pipe = <<>>
    /\ elapsed = 0
    /\ app_started = FALSE
    /\ signals = 0
    /\ hist = NoHist

\* The commands the enhanced packager hands to run_command.
Commands == {"npm install sqlite3@latest --save", "npm install", "npm run rebuild",
             "npm run build", "npm run dist:win", "npm run dist:mac"}
\* Exit statuses of a command: 0, or anything else.
ExitCodes == {0, 1}

Ran(cmd, code) == [what |-> "run", cmd |-> cmd, code |-> code]
Slept(cmd)     == [what |-> "sleep", cmd |-> cmd, code |-> 0]

\* run_command(cmd, description, retry) is called
Call(cmd, retry) ==
    [pc |-> "for", cmd |-> cmd, retry |-> retry, attempt |-> 0, ret |-> FALSE]

InRunCommand(p) == pack.status = "running" /\ pack.rc.pc = p

\* A run_command that sleeps before every attempt.
RunCommandFor_sleeps_first ==
    /\ InRunCommand("for")
    /\ pack' = [pack EXCEPT !.rc.pc = IF pack.rc.attempt < pack.rc.retry
                                      THEN "sleep" ELSE "done"]
    /\ UNCHANGED launcherVars

\* `for attempt in range(retry)` and `if attempt > 0` (lines 33-34); after the
\* loop: return False (lines 45-46)
RunCommandFor ==
    /\ InRunCommand("for")
    /\ pack' = [pack EXCEPT !.rc.pc = IF pack.rc.attempt < pack.rc.retry
                                      THEN (IF pack.rc.attempt > 0 THEN "sleep" ELSE "run")
                                      ELSE "done",
                            !.rc.ret = FALSE]
    /\ UNCHANGED launcherVars

\* time.sleep(2) (line 36)
RunCommandSleep ==
    /\ InRunCommand("sleep")
    /\ pack' = [pack EXCEPT !.log = Append(@, Slept(pack.rc.cmd)), !.rc.pc = "run"]
    /\ UNCHANGED launcherVars

\* subprocess.run(cmd, shell=True) ends with exit status code; 0: return True
\* (lines 39-43)
RunCommandRun(code) ==
    /\ InRunCommand("run")
    /\ pack' = [pack EXCEPT !.log = Append(@, Ran(pack.rc.cmd, code)),
                            !.rc.pc = IF code = 0 THEN "done" ELSE "for",
                            !.rc.ret = (code = 0),
                            !.rc.attempt = IF code = 0 THEN @ ELSE @ + 1]
    /\ UNCHANGED launcherVars

RunCommandStep ==
    \/ RunCommandFor
    \/ RunCommandSleep
    \/ \E code \in ExitCodes : RunCommandRun(code)

\* One call of run_command, of any command and with any retry budget.
RetryInit ==
    /\ LauncherOff
    /\ \E cmd \in Commands, retry \in 0..MaxRetry :
          pack = [NoPack EXCEPT !.script = "run_command", !.rc = Call(cmd, retry)]

SpecRetry == RetryInit /\ [][RunCommandStep]_vars

\* What the log holds of one command.
RECURSIVE Logged(_, _, _)
Logged(log, what, cmd) ==
    IF log = <<>> THEN 0
    ELSE Logged(Front(log), what, cmd)
         + (IF log[Len(log)].what = what /\ log[Len(log)].cmd = cmd THEN 1 ELSE 0)
Runs(cmd)   == Logged(pack.log, "run", cmd)
Sleeps(cmd) == Logged(pack.log, "sleep", cmd)
Succeeded(cmd) == \E i \in 1..Len(pack.log) : pack.log[i] = Ran(cmd, 0)

\* C37: run_command invokes its command at most `retry` times and not again
\* after an attempt that exits 0, on which it returns True; it sleeps exactly
\* once between two attempts and never before the first; it returns False only
\* after `retry` attempts that all exited non-zero (none at all when retry = 0).
C37_RetryBudget ==
    LET rc == pack.rc
        log == pack.log
    IN  /\ Runs(rc.cmd) <= rc.retry
        /\ \A i \in 1..Len(log) :
              /\ log[i].what = (IF i % 2 = 1 THEN "run" ELSE "sleep")
              /\ (log[i].what = "run" /\ log[i].code = 0) => i = Len(log)
        /\ rc.pc = "done" =>
              /\ rc.ret <=> Succeeded(rc.cmd)
              /\ Runs(rc.cmd) > 0 => Sleeps(rc.cmd) = Runs(rc.cmd) - 1
              /\ ~rc.ret => /\ Runs(rc.cmd) = rc.retry
                            /\ \A i \in 1..Len(log) : log[i].code # 0 \/ log[i].what = "sleep"
                            /\ rc.retry = 0 => log = <<>>

\* The command succeeded at the third and last attempt, after two sleeps.
C37_Witness ==
    /\ pack.script = "run_command" /\ pack.rc.pc = "done" /\ pack.rc.ret
    /\ pack.rc.retry = 3 /\ Runs(pack.rc.cmd) = 3 /\ Sleeps(pack.rc.cmd) = 2

(***************************************************************************)
(* main() of the enhanced packager (src/build_app_enhanced.py).            *)
(***************************************************************************)
InEnhanced(p) ==
    pack.script = "enhanced" /\ pack.status = "running" /\ pack.pc = p /\ pack.rc.pc = "idle"

DistCmd == IF pack.os = "Windows" THEN "npm run dist:win" ELSE "npm run dist:mac"

\* The steps of main() that call run_command: their command, their retry
\* budget, whether main() gives up when it returns False, and the step after.
CallSteps == {"e_sqlite_up", "e_install", "e_rebuild", "e_build", "e_dist"}
StepCmd(p) ==
    CASE p = "e_sqlite_up" -> "npm install sqlite3@latest --save"     \* line 115
      [] p = "e_install"   -> "npm install"                           \* line 170
      [] p = "e_rebuild"   -> "npm run rebuild"                       \* line 176
      [] p = "e_build"     -> "npm run build"                         \* line 181
      [] p = "e_dist"      -> DistCmd                                 \* lines 188, 201
StepRetry(p) ==
    CASE p = "e_sqlite_up" -> 3
      [] p = "e_install"   -> 3
      [] p = "e_rebuild"   -> 2
      [] p = "e_build"     -> 2
      [] p = "e_dist"      -> 2
StepFatal(p) == p \in {"e_install", "e_build", "e_dist"}
StepNext(p) ==
    CASE p = "e_sqlite_up" -> "e_install"
      [] p = "e_install"   -> "e_rebuild"
      [] p = "e_rebuild"   -> "e_build"
      [] p = "e_build"     -> "e_dist"
      [] p = "e_dist"      -> "e_report"

\* The script ends: sys.exit(1), an exception caught under __main__ (lines
\* 228-240), or the end of main().
PackExit(status) == [pack EXCEPT !.pc = "exited", !.status = status, !.rc = NoCall]

\* `if os_type not in ["Windows", "Darwin"]` (lines 133-135)
EnhancedOs ==
    /\ InEnhanced("e_os")
    /\ pack' = IF pack.os \in {"Windows", "Darwin"}
               THEN [pack EXCEPT !.pc = "e_prepare"]
               ELSE PackExit("1")
    /\ UNCHANGED launcherVars

\* check_network(), setup_mirrors() and the cleaning of old builds (lines
\* 137-164): writing .npmrc or removing a directory can raise
EnhancedPrepare(ok) ==
    /\ InEnhanced("e_prepare")
    /\ pack' = IF ok THEN [pack EXCEPT !.pc = "e_sqlite"] ELSE PackExit("1")
    /\ UNCHANGED launcherVars

\* upgrade_sqlite3() (lines 95-125): the upgrade runs when `npm list` shows
\* sqlite3 5.1.7; a failure of `npm list` itself is caught
EnhancedSqlite(old) ==
    /\ InEnhanced("e_sqlite")
    /\ pack' = [pack EXCEPT !.pc = IF old THEN "e_sqlite_up" ELSE "e_install"]
    /\ UNCHANGED launcherVars

\* main() calls run_command
EnhancedCall ==
    /\ \E p \in CallSteps : InEnhanced(p)
    /\ pack' = [pack EXCEPT !.rc = Call(StepCmd(pack.pc), StepRetry(pack.pc))]
    /\ UNCHANGED launcherVars

\* A main() that goes on whatever run_command returns.
EnhancedReturn_goes_on ==
    /\ pack.script = "enhanced" /\ pack.status = "running" /\ pack.rc.pc = "done"
    /\ pack' = [pack EXCEPT !.pc = StepNext(pack.pc), !.rc = NoCall]
    /\ UNCHANGED launcherVars

\* run_command has returned: `if not run_command(...)` followed by sys.exit(1)
\* (lines 170-172, 181-183, 188-190, 201-203) or by a warning only (lines
\* 176-177); upgrade_sqlite3's result is not looked at (line 166)
EnhancedReturn ==
    /\ pack.script = "enhanced" /\ pack.status = "running" /\ pack.rc.pc = "done"
    /\ pack' = IF ~pack.rc.ret /\ StepFatal(pack.pc)
               THEN PackExit("1")
               ELSE [pack EXCEPT !.pc = StepNext(pack.pc), !.rc = NoCall]
    /\ UNCHANGED launcherVars

\* The closing messages (lines 192-218): listing release/ can raise
EnhancedReport(ok) ==
    /\ InEnhanced("e_report")
    /\ pack' = PackExit(IF ok THEN "0" ELSE "1")
    /\ UNCHANGED launcherVars

EnhancedStep ==
    \/ EnhancedOs
    \/ \E ok \in BOOLEAN : EnhancedPrepare(ok)
    \/ \E old \in BOOLEAN : EnhancedSqlite(old)
    \/ EnhancedCall
    \/ EnhancedReturn
    \/ \E ok \in BOOLEAN : EnhancedReport(ok)

EnhancedInit ==
    /\ LauncherOff
    /\ \E os \in {"Windows", "Darwin", "Linux"} :
          pack = [NoPack EXCEPT !.script = "enhanced", !.pc = "e_os", !.os = os]

EnhancedNext == EnhancedStep \/ RunCommandStep

\* The script's statements always get to run, and its commands end.
SpecEnhanced == EnhancedInit /\ [][EnhancedNext]_vars /\ WF_vars(EnhancedNext)

\* The command ran its whole budget without exiting 0.
Exhausted(p) == Runs(StepCmd(p)) = StepRetry(p) /\ ~Succeeded(StepCmd(p))

\* Nothing is run after the command of step p.
LastCommand(p) ==
    \A i \in 1..Len(pack.log) : \A j \in 1..Len(pack.log) :
        (pack.log[i].cmd = StepCmd(p) /\ i < j) => pack.log[j].cmd = StepCmd(p)

EnhancedSafe ==
    /\ \A p \in CallSteps : Runs(StepCmd(p)) <= StepRetry(p)
    /\ Runs(DistCmd) > 0 => Succeeded("npm install") /\ Succeeded("npm run build")
    /\ \A p \in {"e_install", "e_build", "e_dist"} :
          Exhausted(p) => pack.status # "0" /\ LastCommand(p)

\* C38: the enhanced packager runs the packaging command only after `npm
\* install` and `npm run build` have each exited 0 within their budgets of 3
\* and 2 attempts; once install, build or packaging has used up its budget no
\* other command runs and the script ends with status 1; after the native
\* rebuild has used up its 2 attempts the build is still run.
C38_PackagingAfterInstallAndBuild ==
    /\ []EnhancedSafe
    /\ \A p \in {"e_install", "e_build", "e_dist"} :
          (pack.script = "enhanced" /\ Exhausted(p)) ~> (pack.status = "1")
    /\ (pack.script = "enhanced" /\ Exhausted("e_rebuild")) ~> (Runs("npm run build") > 0)

\* The native rebuild failed twice and the installer was packaged all the same.
C38_Witness ==
    /\ pack.script = "enhanced" /\ pack.status = "0"
    /\ Exhausted("e_rebuild") /\ Succeeded(DistCmd)
    /\ Runs("npm install") = 3 /\ Runs("npm run build") = 2

(***************************************************************************)
(* main() of the forced packager (src/force_build.py).                     *)
(***************************************************************************)
InForce(p) == pack.script = "force" /\ pack.status = "running" /\ pack.pc = p

BuildCmd   == "npm run build"
PackageCmd == "npx electron-builder --win"
Checked    == [what |-> "check", cmd |-> "release", code |-> 0]
max_retries == 2
\* What became of release/ when the script wanted it out of the way.
Cleared(how) == [what |-> how, cmd |-> "release", code |-> 0]

\* `if not os.path.exists("package.json")`: sys.exit(1) (lines 115-117)
ForceStart(has_package_json) ==
    /\ InForce("f_start")
    /\ pack' = IF has_package_json THEN [pack EXCEPT !.pc = "f_clean"] ELSE PackExit("1")
    /\ UNCHANGED launcherVars

\* kill_processes() and clean_directories() (lines 15-64): release/ is removed
\* or renamed, or stays when both fail ("will go on and try to package")
ForceClean(how) ==
    /\ InForce("f_clean")
    /\ pack' = IF pack.release = "absent"
               THEN [pack EXCEPT !.pc = "f_build"]
               ELSE [pack EXCEPT !.pc = "f_build",
                                 !.log = Append(@, Cleared(how)),
                                 !.release = IF how = "kept" THEN @ ELSE "absent"]
    /\ UNCHANGED launcherVars

\* build_app() (lines 66-75): a failed build is sys.exit(1), which neither
\* `except KeyboardInterrupt` nor `except Exception` catches (lines 149-156)
ForceBuild(code) ==
    /\ InForce("f_build")
    /\ pack' = IF code = 0
               THEN [pack EXCEPT !.log = Append(@, Ran(BuildCmd, code)),
                                 !.pc = "f_for", !.attempt = 0]
               ELSE [PackExit("1") EXCEPT !.log = Append(@, Ran(BuildCmd, code))]
    /\ UNCHANGED launcherVars

\* `for attempt in range(max_retries)` and `if attempt > 0` (lines 125-127)
ForceFor ==
    /\ InForce("f_for")
    /\ pack' = [pack EXCEPT !.pc = IF pack.attempt < max_retries
                                   THEN (IF pack.attempt > 0 THEN "f_again" ELSE "f_package")
                                   ELSE "f_check"]
    /\ UNCHANGED launcherVars

\* Before another attempt: sleep, rename release/ out of the way if that
\* works, sleep (lines 128-137)
ForceAgain(how) ==
    /\ InForce("f_again")
    /\ pack' = IF pack.release = "absent"
               THEN [pack EXCEPT !.pc = "f_package",
                                 !.log = Append(@, Slept(PackageCmd))]
               ELSE [pack EXCEPT !.pc = "f_package",
                                 !.log = Append(Append(@, Slept(PackageCmd)), Cleared(how)),
                                 !.release = IF how = "kept" THEN @ ELSE "absent"]
    /\ UNCHANGED launcherVars

\* package_app() (lines 77-87) and `if package_app(): break` (lines 139-140);
\* whatever its exit status, electron-builder leaves release/ as it was
\* ("none"), makes the directory ("dir") or writes an installer ("exe")
ForcePackage(code, out) ==
    /\ InForce("f_package")
    /\ pack' = [pack EXCEPT
                  !.log = Append(@, Ran(PackageCmd, code)),
                  !.release = CASE out = "exe" -> "exe"
                                [] out = "dir" -> IF @ = "absent" THEN "empty" ELSE @
                                [] OTHER -> @,
                  !.attempt = IF code = 0 THEN @ ELSE @ + 1,
                  !.pc = IF code = 0 THEN "f_check" ELSE "f_for"]
    /\ UNCHANGED launcherVars

\* A check_output that believes the packaging.
ForceCheck_trusting(stat_ok) ==
    /\ InForce("f_check")
    /\ pack' = [PackExit("0") EXCEPT
                  !.log = Append(@, Checked),
                  !.said = IF \E i \in 1..Len(pack.log) : pack.log[i] = Ran(PackageCmd, 0)
                           THEN "success" ELSE "warning"]
    /\ UNCHANGED launcherVars

\* check_output() and the closing message (lines 89-107, 142-147); a stat() of
\* a found installer that raises ends the script under `except Exception`
ForceCheck(stat_ok) ==
    /\ InForce("f_check")
    /\ pack' = IF pack.release = "exe" /\ ~stat_ok
               THEN [PackExit("1") EXCEPT !.log = Append(@, Checked)]
               ELSE [PackExit("0") EXCEPT
                        !.log = Append(@, Checked),
                        !.said = IF pack.release = "exe" THEN "success" ELSE "warning"]
    /\ UNCHANGED launcherVars

ForceNext ==
    \/ \E has_package_json \in BOOLEAN : ForceStart(has_package_json)
    \/ \E how \in {"deleted", "renamed", "kept"} : ForceClean(how)
    \/ \E code \in ExitCodes : ForceBuild(code)
    \/ ForceFor
    \/ \E how \in {"renamed", "kept"} : ForceAgain(how)
    \/ \E code \in ExitCodes, out \in {"none", "dir", "exe"} : ForcePackage(code, out)
    \/ \E stat_ok \in BOOLEAN : ForceCheck(stat_ok)

\* The script starts in a project with or without an older release/.
ForceInit ==
    /\ LauncherOff
    /\ \E old \in {"absent", "empty", "exe"} :
          pack = [NoPack EXCEPT !.script = "force", !.pc = "f_start", !.release = old]

\* The script's statements always get to run, and its commands end.
SpecForce == ForceInit /\ [][ForceNext]_vars /\ WF_vars(ForceNext)

ForceSafe ==
    LET log == pack.log
    IN  /\ Runs(PackageCmd) <= max_retries
        /\ \A i \in 1..Len(log) : \A j \in 1..Len(log) :
              (log[i] = Ran(PackageCmd, 0) /\ i < j) => log[j] # Ran(PackageCmd, log[j].code)
        /\ (\E i \in 1..Len(log) : log[i].cmd = BuildCmd /\ log[i].code # 0) =>
              pack.status = "1" /\ Runs(PackageCmd) = 0
        /\ \A i \in 1..Len(log) : log[i] = Checked => i = Len(log)
        /\ pack.said = "success" =>
              pack.release = "exe" /\ log # <<>> /\ log[Len(log)] = Checked

\* C39: force_build runs the packaging command at most max_retries = 2 times
\* and not again after an attempt that exited 0; a failed build ends the script
\* with status 1 and without any packaging attempt; the output check runs after
\* the last packaging attempt whether that one succeeded or not; and success
\* is reported only when release/ holds an .exe file.
C39_ForcedPackaging ==
    /\ []ForceSafe
    /\ (pack.script = "force" /\ Runs(PackageCmd) > 0) ~>
           (pack.log # <<>> /\ pack.log[Len(pack.log)] = Checked)

\* The first packaging attempt failed, the second one succeeded, the check
\* found the installer.
C39_Witness ==
    /\ pack.script = "force" /\ pack.status = "0" /\ pack.said = "success"
    /\ Runs(PackageCmd) = 2 /\ Succeeded(PackageCmd)

(***************************************************************************)
(* main() called with --check or with --help, on every host of CheckInit.  *)
(***************************************************************************)
ArgsInit ==
    /\ pack = NoPack
    /\ cfg \in [dev : {FALSE}, fast : {FALSE}, check : BOOLEAN, help : BOOLEAN,
                tools : {"ok", "no_node", "no_npm", "no_package_json"}]
    /\ cfg.check # cfg.help
    /\ node_modules \in BOOLEAN
    /\ port \in {"free", "foreign"}
    /\ fs \in {UpToDate, NoConfig, Tree(Absent, Absent, Absent, File(1), File(1))}
    /\ LaunchInit
    /\ trail = NoTrail

ArgsNext ==
    \/ MainHelp
    \/ MainCheck
    \/ FullCheckStep
    \/ CheckExit

SpecArgs == ArgsInit /\ [][ArgsNext]_vars

\* Nothing was installed, built or spawned, and launch() was never entered.
NothingDone ==
    /\ jobs = {} /\ hist.install = "none" /\ hist.installs = 0
    /\ hist.mainBuild = "none" /\ hist.rendererBuild = "none"
    /\ hist.spawns = 0 /\ dev_process = NoProcess
    /\ hist.env = "none" /\ ret = "none" /\ hstack = <<>>

\* C40: with --check main() runs the full environment check once and nothing
\* else (no install, no build, no spawn) and exits with status 0 exactly when
\* no check failed, a missing node_modules being a failed check; with --help it
\* runs no check, install, build or spawn and ends with status 0.
C40_CheckAndHelpOnly ==
    /\ NothingDone
    /\ cfg.check =>
          /\ hist.fullChecks <= 1
          /\ pc = "exited" =>
                /\ hist.fullChecks = 1
                /\ checker.checks_passed + checker.checks_failed = 5
                /\ exit_status = (IF checker.checks_failed = 0 THEN "0" ELSE "1")
                /\ ~node_modules => checker.checks_failed > 0 /\ exit_status = "1"
    /\ cfg.help =>
          /\ hist.fullChecks = 0 /\ checker = NoChecker
          /\ pc \in {"start", "exited"}
          /\ pc = "exited" => exit_status = "0"

\* A check-only run on a host where only node_modules is missing has ended
\* with status 1 after its five checks.
C40_Witness ==
    /\ cfg.check /\ pc = "exited" /\ exit_status = "1"
    /\ ~node_modules /\ checker = [checks_passed |-> 4, checks_failed |-> 1]
    /\ NothingDone
====
